---- MODULE Spec2Model ----
(***************************************************************************)
(* Order-creation, cancellation and payment-settlement workflow of the     *)
(* ecommerce backend (OrdersService, CartService, PaymentsService) over a  *)
(* MySQL store.  Money is kept in integer cents (the columns are           *)
(* DECIMAL(10,2)).  A transaction's writes are kept apart from the         *)
(* committed rows until commitTransaction; statements issued through a     *)
(* repository (not through queryRunner.manager) commit on their own.       *)
(***************************************************************************)
EXTENDS Integers, Sequences, FiniteSets, TLC

\* ---------------------------------------------------------------- bounds
Products == {"p1", "p2"}
Users == {"u1", "u2"}
CheckoutProcs == {"c1", "c2"}
CancelProcs == {"k1", "k2"}
NotifyProcs == {"n1", "n2"}
CartProcs == {"g1", "g2"}
Sessions == {"s1"}
PayProcs == {"a1", "a2"}
MaxOrders == 2
MaxQty == 1
InitialStock == 2
TicksPerDay == 2
MaxTime == 3
MaxTzOffset == 1
MaxDeliveries == 2
MaxAdminOps == 1
MaxStatusOrders == 1
MaxAttempts == 2
MaxCarts == 3
MaxCartQty == 2
MaxCancelRetries == 1

\* catalog price of a product, in cents
CatalogPrice(p) == IF p = "p1" THEN 1000 ELSE 250

NoOrder == [none |-> TRUE]

VARIABLES
  now,          \* current instant, in ticks since the epoch (UTC)
  tz,           \* the server's local-time offset from UTC, in ticks
  webhookSecret,\* STRIPE_WEBHOOK_SECRET of the configuration ("" when not configured)
  tmnCode,      \* VNPAY_TMN_CODE of the configuration ('' when not configured)
  catalog,      \* ids of the product rows that exist
  prodPrice,    \* committed products.price, in cents
  prodName,     \* committed products.name
  isActive,     \* committed products.is_active
  carts,        \* committed carts rows; id = index, a deleted row leaves NoCart
  stock,        \* committed products.stock_quantity
  cartItems,    \* committed cart_items rows of each cart, in load order
  orders,       \* committed orders (with their order_items and shipping address); id = index
  cpc, cUser, cDto, cCart, cOrderNumber, cErr,   \* createOrder: position and locals
  txOrder,      \* createOrder: rows written in the open transaction
  txDec,        \* createOrder: stock decrements issued in the open transaction
  cStock0,      \* history: the committed stock when the createOrder call started
  cOrders0,     \* history: the number of committed orders when the call started
  cCleared,     \* history: the cart_items rows the call's clearCart deleted
  txLog,        \* history: what the call did with its transaction and its query runner
  kpc, kUser, kOrderId, kOrder, kIdx,            \* cancelOrder: position and locals
  restored,     \* history: how often each line of each order was added back to stock
  npc, nKind, nChannel, nOrderId, nOrder,        \* payment notification handler
  nRequest,     \* payment notification handler: the request being handled
  nResponse,    \* payment notification handler: what the last call returned or threw
  accepted,     \* history: the payment attempts of each order that markOrderPaid accepted
  paidMails,    \* history: confirmation e-mails triggered by markOrderPaid, per notification
  handled,      \* history: number of verified notifications received so far
  apc, aOrderId, aOrder, adminOps,               \* admin updateStatus
  ppc, pChannel, pOrderId,                       \* payment-intent / payment-URL creation
  attempts,     \* the gateway's payment attempts of each order: intents and URLs issued
  paymentUrl,   \* createVNPayPaymentUrl: the query string of the URL it is about to return
  orderMails,   \* history: orders whose confirmation e-mail createOrder dispatched
  mailQueue,    \* confirmation e-mails of createOrder still being sent
  lastMail,     \* history: how the most recent e-mail send ended
  gpc, gOp, gUser, gSession, gProduct, gQty,     \* cart request: position and inputs
  gItemCart,    \* cart request: the cart of the row its item id names, 0 when it names none
  gCart, gRead, gItem, gGuest, gIdx,             \* cart request: locals
  gResult,      \* cart request: how the last call ended
  gItems0       \* history: the committed cart_items when the cart request started

envVars == <<now, tz, webhookSecret, tmnCode>>
productVars == <<catalog, prodPrice, prodName, isActive>>
storeVars == <<productVars, stock, carts, cartItems, orders>>
cartVars == <<gpc, gOp, gUser, gSession, gProduct, gItemCart, gQty, gCart, gRead, gItem, gGuest, gIdx, gResult, gItems0>>
checkoutVars ==
  <<cpc, cUser, cDto, cCart, cOrderNumber, cErr, txOrder, txDec, cStock0, cOrders0, cCleared, txLog>>
cancelVars == <<kpc, kUser, kOrderId, kOrder, kIdx, restored>>
notifyVars == <<npc, nKind, nChannel, nOrderId, nOrder, nRequest, nResponse, accepted, paidMails, handled>>
adminVars == <<apc, aOrderId, aOrder, adminOps>>
payVars == <<ppc, pChannel, pOrderId, attempts, paymentUrl>>
mailVars == <<orderMails, mailQueue, lastMail>>
vars == <<envVars, cartVars, storeVars, checkoutVars, cancelVars, notifyVars, adminVars, payVars, mailVars>>

OrderStatus == {"pending", "processing", "shipped", "delivered", "cancelled"}
PaymentStatus == {"pending", "paid", "failed", "refunded"}
DtoPaymentMethods == {"none", "stripe"}
OrderIds == 1..MaxOrders

\* ------------------------------------------------------------- helpers
RECURSIVE SumSeq(_)
SumSeq(s) == IF s = << >> THEN 0 ELSE Head(s) + SumSeq(Tail(s))

\* decimal digits of a natural number, most significant first (String(n))
RECURSIVE ToDigits(_)
ToDigits(n) == IF n < 10 THEN <<n>> ELSE Append(ToDigits(n \div 10), n % 10)

\* String.prototype.padStart(width, '0'): pads on the left, never truncates
RECURSIVE PadStart(_, _)
PadStart(s, width) == IF Len(s) >= width THEN s ELSE PadStart(<<0>> \o s, width)

\* date.toISOString().slice(0, 10): the UTC calendar day of an instant
DateStr(t) == t \div TicksPerDay

\* new Date(y, m, d) of the local date parts: local midnight, as an instant
TodayStart(t, off) == ((t + off) \div TicksPerDay) * TicksPerDay - off

\* Math.round(x) in place of Math.round(x * 100) / 100: rounds to whole currency units
RoundUnits(cents) == ((cents + 50) \div 100) * 100

\* Math.round(x * 100) / 100 on an amount held in cents
RoundCents(cents) == ((2 * cents + 1) \div 2)

\* ------------------------------------------------------------ CartService
\* formatCartResponse: the items with their line totals, and the rounded subtotal
FormatCartResponse(rows) ==
  LET items == [i \in 1..Len(rows) |->
                  [product_id |-> rows[i].product_id,
                   product    |-> [name |-> prodName[rows[i].product_id]],
                   quantity   |-> rows[i].quantity,
                   price      |-> rows[i].price,
                   line_total |-> rows[i].price * rows[i].quantity]]
  IN [items    |-> items,
      subtotal |-> RoundCents(SumSeq([i \in 1..Len(items) |-> items[i].line_total]))]

NoCart == [none |-> TRUE]

\* the findOne of getOrCreateCart: the cart of the user if a user id is given, else the
\* cart of the session if a session id is given; 0 when there is none
FindCart(userId, sessionId) ==
  LET hits == {i \in DOMAIN carts :
                 /\ carts[i] # NoCart
                 /\ IF userId # "null" THEN carts[i].user_id = userId
                    ELSE sessionId # "null" /\ carts[i].session_id = sessionId}
  IN IF hits = {} THEN 0 ELSE CHOOSE i \in hits : \A j \in hits : i <= j

\* getCart(userId): the owner's cart as the response object
GetCart(u) == FormatCartResponse(cartItems[FindCart(u, "null")])

EmptyCartResponse == FormatCartResponse(<< >>)

\* positions of the rows of product p in a cart
RowsOf(rows, p) == {i \in 1..Len(rows) : rows[i].product_id = p}

\* a new cart_items row; the rows of a cart are loaded in index order
ProductRank(p) == IF p = "p1" THEN 1 ELSE 2

InsertRow(rows, row) ==
  SelectSeq(rows, LAMBDA r : ProductRank(r.product_id) < ProductRank(row.product_id))
    \o <<row>> \o
  SelectSeq(rows, LAMBDA r : ProductRank(r.product_id) >= ProductRank(row.product_id))

\* addItem: stock-bounded insert of a line, or increment of the existing line
addItem(u, p, q) ==
  LET rows == cartItems[FindCart(u, "null")]
      hit  == RowsOf(rows, p)
  IN /\ FindCart(u, "null") # 0
     /\ IF p \notin catalog \/ ~isActive[p] \/ stock[p] < q
          THEN UNCHANGED <<carts, cartItems>>
          ELSE IF hit # {}
            THEN LET i == CHOOSE j \in hit : TRUE
                     newQuantity == rows[i].quantity + q
                 IN IF newQuantity > stock[p]
                      THEN UNCHANGED <<carts, cartItems>>
                      ELSE cartItems' = [cartItems EXCEPT ![FindCart(u, "null")][i] =
                             [product_id |-> p, quantity |-> newQuantity, price |-> prodPrice[p]]]
                         /\ UNCHANGED carts
            ELSE cartItems' = [cartItems EXCEPT ![FindCart(u, "null")] =
                   InsertRow(rows, [product_id |-> p, quantity |-> q, price |-> prodPrice[p]])]
                 /\ UNCHANGED carts
     /\ UNCHANGED <<productVars, stock, orders>>
     /\ UNCHANGED <<envVars, cartVars, checkoutVars, cancelVars, notifyVars, adminVars, payVars, mailVars>>

\* ------------------------------------------- CartService, statement by statement
\* UpdateCartItemDto.quantity: an integer of at least 1
UpdateQuantities == 1..MaxCartQty

\* the product row a handler read: null when no row matched
NoProduct == [stock_quantity |-> 0, price |-> 0]

\* findOne of a cart item that matched no row
NoItem == 0 - 1

\* the session id a handler passes to getOrCreateCart: mergeCart passes undefined
SessionOf(g) == IF gOp[g] = "mergeCart" THEN "null" ELSE gSession[g]

\* where a handler continues after getOrCreateCart: in its body, or, when the call
\* is the getCart of its return statement, at the caller
AfterCart(g) == IF gResult[g] = "ok" THEN "idle" ELSE "op"

\* a cart request arrives: the controller passes req.user?.id and the x-session-id
\* header; mergeCart sits behind the JWT guard
cartRequest(g, op, u, sid, itemCart, p, q) ==
  /\ gpc[g] = "idle"
  /\ op = "mergeCart" => u # "null"
  /\ gpc' = [gpc EXCEPT ![g] = IF op = "mergeCart" THEN "guest" ELSE "find"]
  /\ gOp' = [gOp EXCEPT ![g] = op]
  /\ gUser' = [gUser EXCEPT ![g] = u]
  /\ gSession' = [gSession EXCEPT ![g] = sid]
  /\ gProduct' = [gProduct EXCEPT ![g] = p]
  /\ gItemCart' = [gItemCart EXCEPT ![g] =
                     IF op \in {"updateItem", "removeItem"} THEN itemCart ELSE 0]
  /\ gQty' = [gQty EXCEPT ![g] = q]
  /\ gCart' = [gCart EXCEPT ![g] = 0]
  /\ gRead' = [gRead EXCEPT ![g] = NoProduct]
  /\ gItem' = [gItem EXCEPT ![g] = NoItem]
  /\ gGuest' = [gGuest EXCEPT ![g] = NoCart]
  /\ gIdx' = [gIdx EXCEPT ![g] = 0]
  /\ gResult' = [gResult EXCEPT ![g] = IF op = "getCart" THEN "ok" ELSE "none"]
  /\ gItems0' = [gItems0 EXCEPT ![g] = IF op = "mergeCart" THEN cartItems ELSE @]
  /\ UNCHANGED <<envVars, storeVars, checkoutVars, cancelVars, notifyVars, adminVars, payVars, mailVars>>

\* a handler returns or throws: its locals are gone
EndCartRequest(g, result) ==
  /\ gpc' = [gpc EXCEPT ![g] = "idle"]
  /\ gResult' = [gResult EXCEPT ![g] = result]
  /\ gOp' = [gOp EXCEPT ![g] = "getCart"]
  /\ gUser' = [gUser EXCEPT ![g] = "null"]
  /\ gSession' = [gSession EXCEPT ![g] = "null"]
  /\ gProduct' = [gProduct EXCEPT ![g] = "p1"]
  /\ gItemCart' = [gItemCart EXCEPT ![g] = 0]
  /\ gQty' = [gQty EXCEPT ![g] = 1]
  /\ gCart' = [gCart EXCEPT ![g] = 0]
  /\ gRead' = [gRead EXCEPT ![g] = NoProduct]
  /\ gItem' = [gItem EXCEPT ![g] = NoItem]
  /\ gGuest' = [gGuest EXCEPT ![g] = NoCart]
  /\ gIdx' = [gIdx EXCEPT ![g] = 0]
  /\ gItems0' = [gItems0 EXCEPT ![g] = [k \in 1..MaxCarts |-> << >>]]

\* getOrCreateCart, the findOne
getOrCreateCartFind(g) ==
  /\ gpc[g] = "find"
  /\ LET id == FindCart(gUser[g], SessionOf(g))
     IN IF id # 0 /\ AfterCart(g) = "idle"
          THEN EndCartRequest(g, "ok")
          ELSE /\ gCart' = [gCart EXCEPT ![g] = id]
               /\ gpc' = [gpc EXCEPT ![g] = IF id = 0 THEN "create" ELSE "op"]
               /\ UNCHANGED <<gOp, gUser, gSession, gProduct, gItemCart, gQty, gRead, gItem, gGuest, gIdx, gResult, gItems0>>
  /\ UNCHANGED <<envVars, storeVars, checkoutVars, cancelVars, notifyVars, adminVars, payVars, mailVars>>

\* getOrCreateCart, the save of a new cart when the findOne matched none
getOrCreateCartSave(g) ==
  /\ gpc[g] = "create"
  /\ Len(carts) < MaxCarts
  /\ carts' = Append(carts, [user_id    |-> gUser[g],
                             session_id |-> IF gUser[g] # "null" THEN "null" ELSE SessionOf(g)])
  /\ IF AfterCart(g) = "idle"
       THEN EndCartRequest(g, "ok")
       ELSE /\ gCart' = [gCart EXCEPT ![g] = Len(carts) + 1]
            /\ gpc' = [gpc EXCEPT ![g] = "op"]
            /\ UNCHANGED <<gOp, gUser, gSession, gProduct, gItemCart, gQty, gRead, gItem, gGuest, gIdx, gResult, gItems0>>
  /\ UNCHANGED <<productVars, stock, cartItems, orders>>
  /\ UNCHANGED <<envVars, checkoutVars, cancelVars, notifyVars, adminVars, payVars, mailVars>>

\* the quantity of the cart's row of product p, NoItem when it has none
ItemQuantity(k, p) ==
  IF k \in 1..MaxCarts /\ RowsOf(cartItems[k], p) # {}
    THEN cartItems[k][CHOOSE i \in RowsOf(cartItems[k], p) : TRUE].quantity
    ELSE NoItem

\* a lookup of the cart item by its id alone
FindItemRowByIdOnly(cartId, itemCart, p) ==
  IF ItemQuantity(itemCart, p) # NoItem THEN itemCart ELSE 0

\* cartItemRepository.findOne({where: {id: itemId, cart_id: cart.id}}): the cart of the
\* row found, 0 when the id names no row or a row of another cart
FindItemRow(cartId, itemCart, p) ==
  IF itemCart = cartId /\ ItemQuantity(cartId, p) # NoItem THEN cartId ELSE 0

\* cartItemRepository.save of a loaded row: the row with its id is updated, and is
\* inserted again when it was deleted meanwhile
SaveItem(k, row) ==
  IF RowsOf(cartItems[k], row.product_id) # {}
    THEN [cartItems EXCEPT ![k][CHOOSE i \in RowsOf(cartItems[k], row.product_id) : TRUE] = row]
    ELSE [cartItems EXCEPT ![k] = InsertRow(@, row)]

InsertAllowedWithoutUniqueIndex(k, p) ==
  /\ k \in DOMAIN carts
  /\ carts[k] # NoCart
  /\ p \in catalog

\* the unique index on (cart_id, product_id) and the foreign keys on cart_id and
\* product_id let an INSERT of a new row through
InsertAllowed(k, p) ==
  /\ k \in DOMAIN carts
  /\ carts[k] # NoCart
  /\ p \in catalog
  /\ RowsOf(cartItems[k], p) = {}

\* addItem: the product and the existing row are read, and the quantity checked
addItemRead(g) ==
  LET p == gProduct[g]
      q == gQty[g]
      existing == ItemQuantity(gCart[g], p)
  IN /\ gpc[g] = "op"
     /\ gOp[g] = "addItem"
     /\ IF p \notin catalog \/ ~isActive[p]
          THEN EndCartRequest(g, "not_found")
          ELSE IF stock[p] < q \/ (existing # NoItem /\ existing + q > stock[p])
            THEN EndCartRequest(g, "bad_request")
            ELSE /\ gpc' = [gpc EXCEPT ![g] = "save"]
                 /\ gRead' = [gRead EXCEPT ![g] = [stock_quantity |-> stock[p], price |-> prodPrice[p]]]
                 /\ gItem' = [gItem EXCEPT ![g] = existing]
                 /\ UNCHANGED <<gOp, gUser, gSession, gProduct, gItemCart, gQty, gCart, gGuest, gIdx, gResult, gItems0>>
     /\ UNCHANGED <<envVars, storeVars, checkoutVars, cancelVars, notifyVars, adminVars, payVars, mailVars>>

\* addItem: the existing row is saved with the new quantity and the product's price,
\* or a new row is inserted
addItemSave(g) ==
  LET k == gCart[g]
      p == gProduct[g]
      row == [product_id |-> p,
              quantity   |-> IF gItem[g] = NoItem THEN gQty[g] ELSE gItem[g] + gQty[g],
              price      |-> gRead[g].price]
  IN /\ gpc[g] = "save"
     /\ IF gItem[g] # NoItem /\ RowsOf(cartItems[k], p) # {}
          THEN /\ cartItems' = SaveItem(k, row)
               /\ gResult' = [gResult EXCEPT ![g] = "ok"]
               /\ gpc' = [gpc EXCEPT ![g] = "find"]
               /\ UNCHANGED <<gOp, gUser, gSession, gProduct, gItemCart, gQty, gCart, gRead, gItem, gGuest, gIdx, gItems0>>
          ELSE IF InsertAllowed(k, p)
            THEN /\ cartItems' = [cartItems EXCEPT ![k] = InsertRow(@, row)]
                 /\ gResult' = [gResult EXCEPT ![g] = "ok"]
                 /\ gpc' = [gpc EXCEPT ![g] = "find"]
                 /\ UNCHANGED <<gOp, gUser, gSession, gProduct, gItemCart, gQty, gCart, gRead, gItem, gGuest, gIdx, gItems0>>
            ELSE /\ UNCHANGED cartItems
                 /\ EndCartRequest(g, "query_failed")
     /\ UNCHANGED <<productVars, stock, carts, orders>>
     /\ UNCHANGED <<envVars, checkoutVars, cancelVars, notifyVars, adminVars, payVars, mailVars>>

\* updateItem: the row is looked up in the caller's cart together with its product,
\* the quantity checked against the product's stock, and the row saved
updateItem(g) ==
  LET p == gProduct[g]
      k == FindItemRow(gCart[g], gItemCart[g], p)
      existing == ItemQuantity(k, p)
  IN /\ gpc[g] = "op"
     /\ gOp[g] = "updateItem"
     /\ IF existing = NoItem
          THEN UNCHANGED cartItems /\ EndCartRequest(g, "not_found")
          ELSE IF gQty[g] > stock[p]
            THEN UNCHANGED cartItems /\ EndCartRequest(g, "bad_request")
            ELSE /\ cartItems' = [cartItems EXCEPT
                      ![k][CHOOSE i \in RowsOf(cartItems[k], p) : TRUE].quantity = gQty[g]]
                 /\ gRead' = [gRead EXCEPT ![g] = [stock_quantity |-> stock[p], price |-> prodPrice[p]]]
                 /\ gResult' = [gResult EXCEPT ![g] = "ok"]
                 /\ gpc' = [gpc EXCEPT ![g] = "find"]
                 /\ UNCHANGED <<gOp, gUser, gSession, gProduct, gItemCart, gQty, gCart, gItem, gGuest, gIdx, gItems0>>
     /\ UNCHANGED <<productVars, stock, carts, orders>>
     /\ UNCHANGED <<envVars, checkoutVars, cancelVars, notifyVars, adminVars, payVars, mailVars>>

\* removeItem: the row is looked up in the caller's cart and removed
removeItem(g) ==
  LET p == gProduct[g]
      k == FindItemRow(gCart[g], gItemCart[g], p)
  IN /\ gpc[g] = "op"
     /\ gOp[g] = "removeItem"
     /\ IF ItemQuantity(k, p) = NoItem
          THEN UNCHANGED cartItems /\ EndCartRequest(g, "not_found")
          ELSE /\ cartItems' = [cartItems EXCEPT ![k] = SelectSeq(@, LAMBDA r : r.product_id # p)]
               /\ gResult' = [gResult EXCEPT ![g] = "ok"]
               /\ gpc' = [gpc EXCEPT ![g] = "find"]
               /\ UNCHANGED <<gOp, gUser, gSession, gProduct, gItemCart, gQty, gCart, gRead, gItem, gGuest, gIdx, gItems0>>
     /\ UNCHANGED <<productVars, stock, carts, orders>>
     /\ UNCHANGED <<envVars, checkoutVars, cancelVars, notifyVars, adminVars, payVars, mailVars>>

\* clearCart of the controller: every row of the caller's cart is deleted
clearCartItems(g) ==
  /\ gpc[g] = "op"
  /\ gOp[g] = "clearCart"
  /\ cartItems' = [cartItems EXCEPT ![gCart[g]] = << >>]
  /\ gResult' = [gResult EXCEPT ![g] = "ok"]
  /\ gpc' = [gpc EXCEPT ![g] = "find"]
  /\ UNCHANGED <<gOp, gUser, gSession, gProduct, gItemCart, gQty, gCart, gRead, gItem, gGuest, gIdx, gItems0>>
  /\ UNCHANGED <<productVars, stock, carts, orders>>
  /\ UNCHANGED <<envVars, checkoutVars, cancelVars, notifyVars, adminVars, payVars, mailVars>>

\* mergeCart: the guest cart of the session is loaded with its items; without a
\* session id, a guest cart or guest items the user's cart is returned as it is
mergeCartFindGuest(g) ==
  LET id == FindCart("null", gSession[g])
  IN /\ gpc[g] = "guest"
     /\ gpc' = [gpc EXCEPT ![g] = "find"]
     /\ IF id = 0 \/ cartItems[IF id = 0 THEN 1 ELSE id] = << >>
          THEN /\ gResult' = [gResult EXCEPT ![g] = "ok"]
               /\ UNCHANGED gGuest
          ELSE /\ gGuest' = [gGuest EXCEPT ![g] = [id |-> id, items |-> cartItems[id]]]
               /\ UNCHANGED gResult
     /\ gIdx' = [gIdx EXCEPT ![g] = 1]
     /\ UNCHANGED <<gOp, gUser, gSession, gProduct, gItemCart, gQty, gCart, gRead, gItem, gItems0>>
     /\ UNCHANGED <<envVars, storeVars, checkoutVars, cancelVars, notifyVars, adminVars, payVars, mailVars>>

\* mergeCart, one guest item: the user's row of the product is looked up and, when
\* there is one, the product is read for its stock
mergeItemFind(g) ==
  LET p == gGuest[g].items[gIdx[g]].product_id
      existing == ItemQuantity(gCart[g], p)
  IN /\ gpc[g] = "op"
     /\ gOp[g] = "mergeCart"
     /\ gpc' = [gpc EXCEPT ![g] = "mergeSave"]
     /\ gItem' = [gItem EXCEPT ![g] = existing]
     /\ gRead' = [gRead EXCEPT ![g] =
          IF existing # NoItem /\ p \in catalog
            THEN [stock_quantity |-> stock[p], price |-> prodPrice[p]]
            ELSE NoProduct]
     /\ UNCHANGED <<gOp, gUser, gSession, gProduct, gItemCart, gQty, gCart, gGuest, gIdx, gResult, gItems0>>
     /\ UNCHANGED <<envVars, storeVars, checkoutVars, cancelVars, notifyVars, adminVars, payVars, mailVars>>

\* mergeCart, one guest item: the user's row is saved with the summed quantity capped
\* at the stock, or the guest item is inserted into the user's cart as it is
mergeItemSave(g) ==
  LET k == gCart[g]
      guestItem == gGuest[g].items[gIdx[g]]
      p == guestItem.product_id
      maxQty == gRead[g].stock_quantity
      last == gIdx[g] = Len(gGuest[g].items)
  IN /\ gpc[g] = "mergeSave"
     /\ IF (gItem[g] # NoItem /\ RowsOf(cartItems[k], p) # {}) \/ InsertAllowed(k, p)
          THEN /\ cartItems' =
                    IF gItem[g] # NoItem
                      THEN SaveItem(k, [product_id |-> p,
                                        quantity   |-> IF gItem[g] + guestItem.quantity <= maxQty
                                                         THEN gItem[g] + guestItem.quantity
                                                         ELSE maxQty,
                                        price      |-> guestItem.price])
                      ELSE [cartItems EXCEPT ![k] = InsertRow(@, guestItem)]
               /\ gpc' = [gpc EXCEPT ![g] = IF last THEN "mergeDelete" ELSE "op"]
               /\ gIdx' = [gIdx EXCEPT ![g] = @ + 1]
               /\ UNCHANGED <<gOp, gUser, gSession, gProduct, gItemCart, gQty, gCart, gRead, gItem, gGuest, gResult, gItems0>>
          ELSE /\ UNCHANGED cartItems
               /\ EndCartRequest(g, "query_failed")
     /\ UNCHANGED <<productVars, stock, carts, orders>>
     /\ UNCHANGED <<envVars, checkoutVars, cancelVars, notifyVars, adminVars, payVars, mailVars>>

\* mergeCart: the guest cart's rows are deleted and the guest cart removed
mergeCartDeleteGuest(g) ==
  LET id == gGuest[g].id
  IN /\ gpc[g] = "mergeDelete"
     /\ cartItems' = [cartItems EXCEPT ![id] = << >>]
     /\ carts' = [carts EXCEPT ![id] = NoCart]
     /\ gResult' = [gResult EXCEPT ![g] = "ok"]
     /\ gpc' = [gpc EXCEPT ![g] = "find"]
     /\ UNCHANGED <<gOp, gUser, gSession, gProduct, gItemCart, gQty, gCart, gRead, gItem, gGuest, gIdx, gItems0>>
     /\ UNCHANGED <<productVars, stock, orders>>
     /\ UNCHANGED <<envVars, checkoutVars, cancelVars, notifyVars, adminVars, payVars, mailVars>>

\* one statement of a cart request
cartStep(g) ==
  \/ getOrCreateCartFind(g)
  \/ getOrCreateCartSave(g)
  \/ addItemRead(g)
  \/ addItemSave(g)
  \/ updateItem(g)
  \/ removeItem(g)
  \/ clearCartItems(g)
  \/ mergeCartFindGuest(g)
  \/ mergeItemFind(g)
  \/ mergeItemSave(g)
  \/ mergeCartDeleteGuest(g)

\* ProductsService.update by an admin: the given fields of the product row are replaced
updateProduct(p, dto) ==
  /\ p \in catalog
  /\ stock' = [stock EXCEPT ![p] = IF "stock_quantity" \in DOMAIN dto THEN dto.stock_quantity ELSE @]
  /\ prodPrice' = [prodPrice EXCEPT ![p] = IF "price" \in DOMAIN dto THEN dto.price ELSE @]
  /\ prodName' = [prodName EXCEPT ![p] = IF "name" \in DOMAIN dto THEN dto.name ELSE @]
  /\ isActive' = [isActive EXCEPT ![p] = IF "is_active" \in DOMAIN dto THEN dto.is_active ELSE @]
  /\ UNCHANGED <<catalog, carts, cartItems, orders>>
  /\ UNCHANGED <<envVars, cartVars, checkoutVars, cancelVars, notifyVars, adminVars, payVars, mailVars>>

\* ------------------------------------------------------------ OrdersService
\* generateOrderNumber: ORD-<UTC date>-<count of orders since local midnight, plus one>
generateOrderNumber(t, off, committed) ==
  LET dateStr    == DateStr(t)
      todayStart == TodayStart(t, off)
      count      == Cardinality({i \in DOMAIN committed : committed[i].created_at >= todayStart})
  IN <<"ORD", dateStr, PadStart(ToDigits(count + 1), 4)>>

InFlight == {c \in CheckoutProcs : cpc[c] \notin {"idle", "failed", "done"}}

NoDec == [p \in Products |-> 0]

\* the Order row with its OrderItem rows and ShippingAddress row, as createOrder builds them
NewOrder(u, dto, cart, orderNumber, t) ==
  LET subtotal    == cart.subtotal
      shippingFee == 0
      tax         == 0
      discount    == 0
  IN [user_id          |-> u,
      order_number     |-> orderNumber,
      status           |-> "pending",
      payment_status   |-> "pending",
      payment_method   |-> IF dto = "none" THEN "cod" ELSE dto,
      subtotal         |-> subtotal,
      shipping_fee     |-> shippingFee,
      tax              |-> tax,
      discount         |-> discount,
      total            |-> subtotal + shippingFee + tax - discount,
      created_at       |-> t,
      items            |-> [i \in 1..Len(cart.items) |->
                              [product_id   |-> cart.items[i].product_id,
                               product_name |-> cart.items[i].product.name,
                               quantity     |-> cart.items[i].quantity,
                               price      |-> cart.items[i].price,
                               subtotal   |-> cart.items[i].line_total]],
      shipping_address |-> [first_name |-> u]]

\* the transaction is rolled back: its rows and decrements are discarded
Rollback(c, err) ==
  /\ cpc' = [cpc EXCEPT ![c] = "failed"]
  /\ cErr' = [cErr EXCEPT ![c] = err]
  /\ txOrder' = [txOrder EXCEPT ![c] = NoOrder]
  /\ txDec' = [txDec EXCEPT ![c] = NoDec]
  /\ txLog' = [txLog EXCEPT ![c] = @ \o <<"rollback", "release">>]

\* the locals of a createOrder call that has ended
EndCall(c) ==
  /\ cUser' = [cUser EXCEPT ![c] = "u1"]
  /\ cDto' = [cDto EXCEPT ![c] = "none"]
  /\ cCart' = [cCart EXCEPT ![c] = EmptyCartResponse]
  /\ cOrderNumber' = [cOrderNumber EXCEPT ![c] = << >>]
  /\ cStock0' = [cStock0 EXCEPT ![c] = NoDec]
  /\ cOrders0' = [cOrders0 EXCEPT ![c] = 0]
  /\ cCleared' = [cCleared EXCEPT ![c] = << >>]

KeepCall == UNCHANGED <<cUser, cDto, cCart, cOrderNumber, cStock0, cOrders0, cCleared, txLog>>

\* createOrder, lines 56-67: read the cart, reject an empty one, open the transaction
createOrderStart(c, u, dto) ==
  /\ cpc[c] \in {"idle", "done", "failed"}
  /\ Len(orders) + Cardinality(InFlight) < MaxOrders
  /\ LET cart == GetCart(u)
     IN IF Len(cart.items) = 0
          THEN /\ cpc' = [cpc EXCEPT ![c] = "failed"]
               /\ cErr' = [cErr EXCEPT ![c] = "EmptyCart"]
               /\ txLog' = [txLog EXCEPT ![c] = << >>]
               /\ UNCHANGED <<cUser, cDto, cCart, cOrderNumber, cStock0, cOrders0, cCleared>>
          ELSE /\ cpc' = [cpc EXCEPT ![c] = "validate"]
               /\ cErr' = [cErr EXCEPT ![c] = "none"]
               /\ cUser' = [cUser EXCEPT ![c] = u]
               /\ cDto' = [cDto EXCEPT ![c] = dto]
               /\ cCart' = [cCart EXCEPT ![c] = cart]
               /\ cStock0' = [cStock0 EXCEPT ![c] = stock]
               /\ cOrders0' = [cOrders0 EXCEPT ![c] = Len(orders)]
               /\ txLog' = [txLog EXCEPT ![c] = <<"start">>]
               /\ UNCHANGED <<cOrderNumber, cCleared>>
  /\ UNCHANGED <<txOrder, txDec>>
  /\ UNCHANGED <<envVars, cartVars, storeVars, cancelVars, notifyVars, adminVars, payVars, mailVars>>

\* the first cart line that fails validation, or 0
FirstBadLine(items) ==
  LET bad == {i \in 1..Len(items) :
                \/ items[i].product_id \notin catalog
                \/ stock[items[i].product_id] < items[i].quantity}
  IN IF bad = {} THEN 0 ELSE CHOOSE i \in bad : \A j \in bad : i <= j

\* createOrder step 1: every line's product exists and has enough stock
validateStock(c) ==
  /\ cpc[c] = "validate"
  /\ LET i == FirstBadLine(cCart[c].items)
     IN IF i = 0
          THEN /\ cpc' = [cpc EXCEPT ![c] = "number"]
               /\ UNCHANGED <<cErr, txOrder, txDec>>
               /\ KeepCall
          ELSE /\ IF cCart[c].items[i].product_id \notin catalog
                    THEN Rollback(c, "ProductNotFound")
                    ELSE Rollback(c, "InsufficientStock")
               /\ EndCall(c)
  /\ UNCHANGED <<envVars, cartVars, storeVars, cancelVars, notifyVars, adminVars, payVars, mailVars>>

\* createOrder step 2: the order number, counted over the committed orders
createOrderNumber(c) ==
  /\ cpc[c] = "number"
  /\ cOrderNumber' = [cOrderNumber EXCEPT ![c] = generateOrderNumber(now, tz, orders)]
  /\ cpc' = [cpc EXCEPT ![c] = "save"]
  /\ UNCHANGED <<cUser, cDto, cCart, cErr, txOrder, txDec, cStock0, cOrders0, cCleared, txLog>>
  /\ UNCHANGED <<envVars, cartVars, storeVars, cancelVars, notifyVars, adminVars, payVars, mailVars>>

saveOrderRowsWithoutUniqueIndex(c) ==
  /\ cpc[c] = "save"
  /\ IF \E i \in 1..Len(cCart[c].items) : cCart[c].items[i].product_id \notin catalog
       THEN Rollback(c, "WriteFailed") /\ EndCall(c)
       ELSE /\ txOrder' = [txOrder EXCEPT ![c] =
                 NewOrder(cUser[c], cDto[c], cCart[c], cOrderNumber[c], now)]
            /\ cpc' = [cpc EXCEPT ![c] = "stock"]
            /\ UNCHANGED <<cErr, txDec>>
            /\ KeepCall
  /\ UNCHANGED <<envVars, cartVars, storeVars, cancelVars, notifyVars, adminVars, payVars, mailVars>>

\* createOrder steps 3-6: insert the order, its items and its address in the transaction.
\* The unique index on order_number rejects a committed duplicate and waits for an
\* uncommitted one; the foreign key rejects an item of a deleted product.
saveOrderRows(c) ==
  /\ cpc[c] = "save"
  /\ \A d \in CheckoutProcs \ {c} :
        txOrder[d] # NoOrder => txOrder[d].order_number # cOrderNumber[c]
  /\ IF \E i \in DOMAIN orders : orders[i].order_number = cOrderNumber[c]
       THEN Rollback(c, "DuplicateOrderNumber") /\ EndCall(c)
       ELSE IF \E i \in 1..Len(cCart[c].items) : cCart[c].items[i].product_id \notin catalog
         THEN Rollback(c, "WriteFailed") /\ EndCall(c)
         ELSE /\ txOrder' = [txOrder EXCEPT ![c] =
                   NewOrder(cUser[c], cDto[c], cCart[c], cOrderNumber[c], now)]
              /\ cpc' = [cpc EXCEPT ![c] = "stock"]
              /\ UNCHANGED <<cErr, txDec>>
              /\ KeepCall
  /\ UNCHANGED <<envVars, cartVars, storeVars, cancelVars, notifyVars, adminVars, payVars, mailVars>>

\* a decrement of one per line, whatever the line's quantity
LineDecrementsOneEach(items) ==
  [p \in Products |->
     SumSeq([i \in 1..Len(items) |-> IF items[i].product_id = p THEN 1 ELSE 0])]

\* the relative decrements of step 7, per product
LineDecrements(items) ==
  [p \in Products |->
     SumSeq([i \in 1..Len(items) |-> IF items[i].product_id = p THEN items[i].quantity ELSE 0])]

\* the UPDATEs issued through productRepository instead: each commits on its own
ReduceStockAutoCommit(committed, items) ==
  [committed |-> [p \in Products |-> committed[p] - LineDecrements(items)[p]],
   pending   |-> NoDec]

\* the UPDATEs of step 7 run through queryRunner.manager: the committed rows keep
\* their values and the decrements are pending in the transaction
ReduceStockEffect(committed, items) ==
  [committed |-> committed, pending |-> LineDecrements(items)]

\* createOrder step 7: stock_quantity = stock_quantity - quantity, inside the transaction
reduceStock(c) ==
  /\ cpc[c] = "stock"
  /\ LET effect == ReduceStockEffect(stock, cCart[c].items)
     IN /\ stock' = effect.committed
        /\ txDec' = [txDec EXCEPT ![c] = effect.pending]
  /\ cpc' = [cpc EXCEPT ![c] = "clear"]
  /\ UNCHANGED <<productVars, carts, cartItems, orders>>
  /\ UNCHANGED <<cUser, cDto, cCart, cOrderNumber, cErr, txOrder, cStock0, cOrders0, cCleared, txLog>>
  /\ UNCHANGED <<envVars, cartVars, cancelVars, notifyVars, adminVars, payVars, mailVars>>

\* createOrder step 8: CartService.clearCart deletes the rows through its own repository
clearCart(c) ==
  /\ cpc[c] = "clear"
  /\ cartItems' = [cartItems EXCEPT ![FindCart(cUser[c], "null")] = << >>]
  /\ cCleared' = [cCleared EXCEPT ![c] = cartItems[FindCart(cUser[c], "null")]]
  /\ UNCHANGED carts
  /\ cpc' = [cpc EXCEPT ![c] = "commit"]
  /\ UNCHANGED <<productVars, stock, orders>>
  /\ UNCHANGED <<cUser, cDto, cCart, cOrderNumber, cErr, txOrder, txDec, cStock0, cOrders0, txLog>>
  /\ UNCHANGED <<envVars, cartVars, cancelVars, notifyVars, adminVars, payVars, mailVars>>

\* createOrder step 10, lines 162-167: the confirmation e-mail of the committed order is
\* started and not awaited
DispatchAfterCommit(mails, id) == mails \cup {id}

\* createOrder steps 9-10: the transaction's rows and decrements become the committed
\* state, then the confirmation e-mail is dispatched
commitTransaction(c) ==
  /\ cpc[c] = "commit"
  /\ orders' = Append(orders, txOrder[c])
  /\ stock' = [p \in Products |-> stock[p] - txDec[c][p]]
  /\ txOrder' = [txOrder EXCEPT ![c] = NoOrder]
  /\ txDec' = [txDec EXCEPT ![c] = NoDec]
  /\ txLog' = [txLog EXCEPT ![c] = @ \o <<"commit", "release">>]
  /\ cpc' = [cpc EXCEPT ![c] = "done"]
  /\ EndCall(c)
  /\ orderMails' = DispatchAfterCommit(orderMails, Len(orders) + 1)
  /\ mailQueue' = DispatchAfterCommit(mailQueue, Len(orders) + 1)
  /\ UNCHANGED lastMail
  /\ UNCHANGED <<productVars, carts, cartItems>>
  /\ UNCHANGED cErr
  /\ UNCHANGED <<envVars, cartVars, cancelVars, notifyVars, adminVars, payVars>>

\* createOrder steps 9-11 when the findOne of the return statement rejects: the
\* transaction is committed and the e-mail dispatched; the promise is returned without
\* await, so the catch block does not run; the finally block releases the runner and the
\* caller receives the error
returnOrderFails(c) ==
  /\ cpc[c] = "commit"
  /\ orders' = Append(orders, txOrder[c])
  /\ stock' = [p \in Products |-> stock[p] - txDec[c][p]]
  /\ txOrder' = [txOrder EXCEPT ![c] = NoOrder]
  /\ txDec' = [txDec EXCEPT ![c] = NoDec]
  /\ txLog' = [txLog EXCEPT ![c] = @ \o <<"commit", "release">>]
  /\ cpc' = [cpc EXCEPT ![c] = "failed"]
  /\ cErr' = [cErr EXCEPT ![c] = "ReadFailed"]
  /\ EndCall(c)
  /\ orderMails' = DispatchAfterCommit(orderMails, Len(orders) + 1)
  /\ mailQueue' = DispatchAfterCommit(mailQueue, Len(orders) + 1)
  /\ UNCHANGED lastMail
  /\ UNCHANGED <<productVars, carts, cartItems>>
  /\ UNCHANGED <<envVars, cartVars, cancelVars, notifyVars, adminVars, payVars>>

\* createOrder, catch block: a statement of the transaction (or the commit) throws
createOrderFails(c) ==
  /\ cpc[c] \in {"validate", "number", "save", "stock", "clear", "commit"}
  /\ Rollback(c, "WriteFailed")
  /\ EndCall(c)
  /\ UNCHANGED <<envVars, cartVars, storeVars, cancelVars, notifyVars, adminVars, payVars, mailVars>>

\* ProductsService.remove: the product row is deleted, its cart lines go with it
\* (ON DELETE CASCADE); order_items rows that reference it forbid the delete
removeProduct(p) ==
  /\ p \in catalog
  /\ \A i \in DOMAIN orders : \A j \in DOMAIN orders[i].items : orders[i].items[j].product_id # p
  /\ \A c \in CheckoutProcs :
        txOrder[c] # NoOrder => \A j \in DOMAIN txOrder[c].items : txOrder[c].items[j].product_id # p
  /\ catalog' = catalog \ {p}
  /\ cartItems' = [k \in 1..MaxCarts |-> SelectSeq(cartItems[k], LAMBDA r : r.product_id # p)]
  /\ UNCHANGED <<prodPrice, prodName, isActive, stock, carts, orders>>
  /\ UNCHANGED <<envVars, cartVars, checkoutVars, cancelVars, notifyVars, adminVars, payVars, mailVars>>

\* findOne(id, userId): the order with that id that belongs to the user, if any
FindOne(id, u) == id \in DOMAIN orders /\ orders[id].user_id = u

\* the fields of a loaded Order entity that cancelOrder and updateStatus read or save
LoadedOrder(row) ==
  [status |-> row.status, payment_status |-> row.payment_status,
   payment_method |-> row.payment_method, items |-> row.items]

SaveOrderDroppingItems(id, entity) ==
  [orders EXCEPT ![id].status = entity.status,
                 ![id].payment_status = entity.payment_status,
                 ![id].payment_method = entity.payment_method,
                 ![id].items = << >>]

\* repository.save(order) of an entity loaded earlier: the row takes the entity's
\* status, payment_status and payment_method
SaveOrder(id, entity) ==
  [orders EXCEPT ![id].status = entity.status,
                 ![id].payment_status = entity.payment_status,
                 ![id].payment_method = entity.payment_method]

\* a status check that only refuses orders already cancelled
CancelAllowedUnlessCancelled(row) == row.status # "cancelled"

\* cancelOrder, line 301: only a pending order passes
CancelAllowed(row) == row.status = "pending"

\* cancelOrder, lines 299-303: load the order, reject one that is not pending
cancelOrderStart(k, id, u) ==
  /\ kpc[k] \in {"idle", "done", "not_found", "invalid_state", "failed"}
  /\ IF ~FindOne(id, u)
       THEN /\ kpc' = [kpc EXCEPT ![k] = "not_found"]
            /\ UNCHANGED <<kUser, kOrderId, kOrder, kIdx>>
       ELSE IF ~CancelAllowed(orders[id])
         THEN /\ kpc' = [kpc EXCEPT ![k] = "invalid_state"]
              /\ UNCHANGED <<kUser, kOrderId, kOrder, kIdx>>
         ELSE /\ kpc' = [kpc EXCEPT ![k] = "restore"]
              /\ kUser' = [kUser EXCEPT ![k] = u]
              /\ kOrderId' = [kOrderId EXCEPT ![k] = id]
              /\ kOrder' = [kOrder EXCEPT ![k] = LoadedOrder(orders[id])]
              /\ kIdx' = [kIdx EXCEPT ![k] = 1]
  /\ UNCHANGED restored
  /\ UNCHANGED <<envVars, cartVars, storeVars, checkoutVars, notifyVars, adminVars, payVars, mailVars>>

\* cancelOrder, lines 306-313: one line's quantity is added back, each statement on its own
restoreStock(k) ==
  /\ kpc[k] = "restore"
  /\ LET item == kOrder[k].items[kIdx[k]]
         p    == item.product_id
     IN /\ stock' = [stock EXCEPT ![p] = IF p \in catalog THEN @ + item.quantity ELSE @]
        /\ restored' = [restored EXCEPT ![kOrderId[k]][p] = @ + 1]
  /\ kIdx' = [kIdx EXCEPT ![k] = @ + 1]
  /\ kpc' = [kpc EXCEPT ![k] = IF kIdx[k] = Len(kOrder[k].items) THEN "save" ELSE "restore"]
  /\ UNCHANGED <<productVars, carts, cartItems, orders>>
  /\ UNCHANGED <<kUser, kOrderId, kOrder>>
  /\ UNCHANGED <<envVars, cartVars, checkoutVars, notifyVars, adminVars, payVars, mailVars>>

\* cancelOrder, lines 315-316: the loaded entity is saved with status cancelled
cancelOrderSave(k) ==
  /\ kpc[k] = "save"
  /\ orders' = SaveOrder(kOrderId[k], [kOrder[k] EXCEPT !.status = "cancelled"])
  /\ kpc' = [kpc EXCEPT ![k] = "done"]
  /\ kUser' = [kUser EXCEPT ![k] = "u1"]
  /\ kOrderId' = [kOrderId EXCEPT ![k] = 0]
  /\ kOrder' = [kOrder EXCEPT ![k] = NoOrder]
  /\ kIdx' = [kIdx EXCEPT ![k] = 0]
  /\ UNCHANGED <<productVars, stock, carts, cartItems>>
  /\ UNCHANGED restored
  /\ UNCHANGED <<envVars, cartVars, checkoutVars, notifyVars, adminVars, payVars, mailVars>>

\* cancelOrder: a statement throws; cancelOrder has no transaction and no catch block,
\* so the statements already executed stay committed
cancelOrderFails(k) ==
  /\ kpc[k] \in {"restore", "save"}
  /\ kpc' = [kpc EXCEPT ![k] = "failed"]
  /\ kUser' = [kUser EXCEPT ![k] = "u1"]
  /\ kOrderId' = [kOrderId EXCEPT ![k] = 0]
  /\ kOrder' = [kOrder EXCEPT ![k] = NoOrder]
  /\ kIdx' = [kIdx EXCEPT ![k] = 0]
  /\ UNCHANGED restored
  /\ UNCHANGED <<envVars, cartVars, storeVars, checkoutVars, notifyVars, adminVars, payVars, mailVars>>

updateStatusStartPendingOnly(id, dto) ==
  /\ apc = "idle"
  /\ adminOps < MaxAdminOps
  /\ id \in DOMAIN orders
  /\ dto.status = "cancelled" => orders[id].status = "pending"
  /\ adminOps' = adminOps + 1
  /\ aOrderId' = id
  /\ aOrder' = [LoadedOrder(orders[id]) EXCEPT
                  !.status = IF dto.status # "none" THEN dto.status ELSE @,
                  !.payment_status = IF dto.payment_status # "none" THEN dto.payment_status ELSE @]
  /\ apc' = "save"
  /\ UNCHANGED <<envVars, cartVars, storeVars, checkoutVars, cancelVars, notifyVars, payVars, mailVars>>

\* updateStatus (admin), lines 323-331: load the order and set the supplied fields
updateStatusStart(id, dto) ==
  /\ apc = "idle"
  /\ adminOps < MaxAdminOps
  /\ id \in DOMAIN orders
  /\ adminOps' = adminOps + 1
  /\ aOrderId' = id
  /\ aOrder' = [LoadedOrder(orders[id]) EXCEPT
                  !.status = IF dto.status # "none" THEN dto.status ELSE @,
                  !.payment_status = IF dto.payment_status # "none" THEN dto.payment_status ELSE @]
  /\ apc' = "save"
  /\ UNCHANGED <<envVars, cartVars, storeVars, checkoutVars, cancelVars, notifyVars, payVars, mailVars>>

\* updateStatus (admin), line 333: the entity is saved
updateStatusSave ==
  /\ apc = "save"
  /\ orders' = SaveOrder(aOrderId, aOrder)
  /\ apc' = "idle"
  /\ aOrderId' = 0
  /\ aOrder' = NoOrder
  /\ UNCHANGED <<productVars, stock, carts, cartItems, adminOps>>
  /\ UNCHANGED <<envVars, cartVars, checkoutVars, cancelVars, notifyVars, payVars, mailVars>>

\* ------------------------------------------------------------ VNPayService
\* A string is a sequence of characters; '' is << >>.  undefined is a value no string equals.
Undefined == <<[undefined |-> TRUE]>>

HashSecret == "VNPAY_HASH_SECRET"

\* the parameter names of a payment URL and of a return, in the order
\* Array.prototype.sort() gives them
KeyOrder ==
  <<"vnp_Amount", "vnp_Command", "vnp_CreateDate", "vnp_CurrCode", "vnp_ExpireDate",
    "vnp_IpAddr", "vnp_Locale", "vnp_OrderInfo", "vnp_OrderType", "vnp_ResponseCode",
    "vnp_ReturnUrl", "vnp_SecureHash", "vnp_SecureHashType", "vnp_TmnCode",
    "vnp_TransactionNo", "vnp_TxnRef", "vnp_Version">>

\* params.<key>: the value, or undefined when the query has no such parameter
Param(params, key) == IF key \in DOMAIN params THEN params[key] ELSE Undefined

\* sortObject: the entries in key order, without those whose value is undefined or ''
sortObject(obj) ==
  LET keys == SelectSeq(KeyOrder, LAMBDA k : k \in DOMAIN obj /\ obj[k] # << >>)
  IN [i \in 1..Len(keys) |-> <<keys[i], obj[keys[i]]>>]

\* crypto.createHmac('sha512', secret).update(data).digest('hex'): a string that
\* determines the key and the data (the HMAC has no collisions)
Hmac(secret, data) == <<[key |-> secret, data |-> data]>>

\* new URLSearchParams(sorted).toString(): the entries in their order, every character
\* of a value written as its escape (characters that stand for themselves are not told
\* apart from those written as %XX)
URLSearchParamsToString(sorted) ==
  [i \in 1..Len(sorted) |->
     <<sorted[i][1], [j \in 1..Len(sorted[i][2]) |-> <<"%", sorted[i][2][j]>>]>>]

\* the query parser of the framework: each name with its value, the escapes decoded
ParseQuery(queryString) ==
  [k \in {queryString[i][1] : i \in 1..Len(queryString)} |->
     LET i == CHOOSE i \in 1..Len(queryString) : queryString[i][1] = k
     IN [j \in 1..Len(queryString[i][2]) |-> queryString[i][2][j][2]]]

\* a signed string that leaves vnp_TransactionNo out as well
SignDataSkipsTransactionNo(params) ==
  URLSearchParamsToString(
    sortObject([k \in DOMAIN params
                      \ {"vnp_SecureHash", "vnp_SecureHashType", "vnp_TransactionNo"}
                  |-> params[k]]))

\* validateReturn, lines 118-130: the entries that are signed, every entry but
\* vnp_SecureHash and vnp_SecureHashType, sorted and serialized
SignData(params) ==
  URLSearchParamsToString(
    sortObject([k \in DOMAIN params \ {"vnp_SecureHash", "vnp_SecureHashType"} |-> params[k]]))

\* validateReturn: the recomputed HMAC of the signed entries against vnp_SecureHash
validateReturn(params) ==
  LET secureHash == Param(params, "vnp_SecureHash")
      checkSum   == Hmac(HashSecret, SignData(params))
  IN [isValid       |-> secureHash = checkSum,
      responseCode  |-> Param(params, "vnp_ResponseCode"),
      orderId       |-> Param(params, "vnp_TxnRef"),
      transactionNo |-> Param(params, "vnp_TransactionNo")]

\* an isPaymentSuccessful that takes every code starting with 0 as success
IsPaymentSuccessfulLeadingZero(responseCode) ==
  responseCode # Undefined /\ Len(responseCode) > 0 /\ responseCode[1] = "0"

\* isPaymentSuccessful: the code is exactly '00'
isPaymentSuccessful(responseCode) == responseCode = <<"0", "0">>

\* the codes of getResponseMessage's table, with their messages
ResponseMessages ==
  [c \in {<<"0", "0">>, <<"0", "7">>, <<"0", "9">>, <<"1", "0">>, <<"1", "1">>, <<"1", "2">>,
          <<"1", "3">>, <<"2", "4">>, <<"5", "1">>, <<"6", "5">>, <<"7", "5">>, <<"7", "9">>,
          <<"9", "9">>} |->
     CASE c = <<"0", "0">> -> "Transaction successful"
       [] c = <<"0", "7">> -> "Deducted money successfully. Transaction is suspected of fraud"
       [] c = <<"0", "9">> -> "Transaction failed: Card/Account not registered for InternetBanking"
       [] c = <<"1", "0">> -> "Transaction failed: Incorrect card/account information more than 3 times"
       [] c = <<"1", "1">> -> "Transaction failed: Payment timeout"
       [] c = <<"1", "2">> -> "Transaction failed: Card/Account is locked"
       [] c = <<"1", "3">> -> "Transaction failed: Incorrect OTP"
       [] c = <<"2", "4">> -> "Transaction cancelled by customer"
       [] c = <<"5", "1">> -> "Transaction failed: Insufficient balance"
       [] c = <<"6", "5">> -> "Transaction failed: Exceeded daily transaction limit"
       [] c = <<"7", "5">> -> "Bank is under maintenance"
       [] c = <<"7", "9">> -> "Transaction failed: Incorrect payment password"
       [] OTHER -> "Other errors"]

\* getResponseMessage: the table's message, or the default
getResponseMessage(code) ==
  IF code \in DOMAIN ResponseMessages THEN ResponseMessages[code] ELSE "Unknown error"

\* the parameters with vnp_SecureHash set to their HMAC under a secret
Sign(fields, secret) ==
  [k \in DOMAIN fields \cup {"vnp_SecureHash"} |->
     IF k = "vnp_SecureHash" THEN Hmac(secret, SignData(fields)) ELSE fields[k]]

\* the return VNPay sends for a payment: signed with the merchant's secret
\* (createPaymentUrl puts the order number in vnp_TxnRef)
GatewayReturn(ref, code, txn) ==
  Sign([vnp_ResponseCode |-> code, vnp_TransactionNo |-> <<txn>>, vnp_TxnRef |-> ref], HashSecret)

\* 15 * 60 * 1000 ms, line 70: the validity of a payment URL, in ticks (rounded up)
ExpireTicks == 1

\* formatDate: the local calendar day and the local time of day of an instant
formatDate(date) == <<(date + tz) \div TicksPerDay, (date + tz) % TicksPerDay>>

\* the parameters createPaymentUrl builds for an order and a client address, lines 68-89
PaymentParams(order, ipAddr) ==
  [vnp_Version    |-> <<"2", ".", "1", ".", "0">>,
   vnp_Command    |-> <<"pay">>,
   vnp_TmnCode    |-> tmnCode,
   vnp_Locale     |-> <<"vn">>,
   vnp_CurrCode   |-> <<"VND">>,
   vnp_TxnRef     |-> order.order_number,
   vnp_OrderInfo  |-> <<"Payment", " ", "for", " ", "order", " ">> \o order.order_number,
   vnp_OrderType  |-> <<"other">>,
   vnp_Amount     |-> ToDigits(order.total * 100),
   vnp_ReturnUrl  |-> <<"http", ":", "/", "/", "localhost", ":", "3002", "/", "vnpay-return">>,
   vnp_IpAddr     |-> ipAddr,
   vnp_CreateDate |-> formatDate(now),
   vnp_ExpireDate |-> formatDate(now + ExpireTicks)]

\* a createPaymentUrl that signs every parameter it built, the empty ones included
createPaymentUrlSigningEmptyValues(order, ipAddr) ==
  LET params       == PaymentParams(order, ipAddr)
      allKeys      == SelectSeq(KeyOrder, LAMBDA k : k \in DOMAIN params)
      signData     == URLSearchParamsToString([i \in 1..Len(allKeys) |->
                                                 <<allKeys[i], params[allKeys[i]]>>])
      signed       == Hmac(HashSecret, signData)
      sortedParams == sortObject(params)
  IN URLSearchParamsToString(Append(sortedParams, <<"vnp_SecureHash", signed>>))

\* createPaymentUrl: the query string of the URL, lines 92-103; vnp_SecureHash is added
\* last to the sorted parameters and is the HMAC of their serialization
createPaymentUrl(order, ipAddr) ==
  LET sortedParams == sortObject(PaymentParams(order, ipAddr))
      signData     == URLSearchParamsToString(sortedParams)
      signed       == Hmac(HashSecret, signData)
  IN URLSearchParamsToString(Append(sortedParams, <<"vnp_SecureHash", signed>>))

\* ------------------------------------------------------------ StripeService
\* a constructWebhookEvent that only requires a signature header to be present
StripeVerifiesAnySignature(secret, signature) == signature # "none"

\* constructWebhookEvent: a configured secret and a signature that matches the payload
StripeVerifies(secret, signature) == secret # "" /\ signature = "valid"

\* ------------------------------------------------------------ PaymentsService
Channels == {"stripe", "vnpay"}
NotificationKinds == {"success", "failure"}
OrderRefs == 0..MaxOrders
AttemptIds == 0..MaxAttempts

NoParams == << >>
NoMessage ==
  [channel |-> "none", path |-> "none", signature |-> "none", type |-> "none",
   order_id |-> 0, intent |-> 0, params |-> NoParams]

\* what a call returns or throws
NoResponse == [status |-> "none", success |-> FALSE, message |-> ""]
Received == [status |-> "received", success |-> TRUE, message |-> ""]
BadRequest == [status |-> "bad_request", success |-> FALSE, message |-> ""]
NotFound == [status |-> "not_found", success |-> FALSE, message |-> ""]

\* a Stripe webhook request: the signature header and the event of the payload; order_id 0
\* is metadata without an order id, intent is the payment intent the event is about
StripeEvent(signature, type, id, intent) ==
  [channel |-> "stripe", path |-> "webhook", signature |-> signature, type |-> type,
   order_id |-> id, intent |-> intent, params |-> NoParams]

\* a VNPay request: the route it arrives on and its query parameters
VNPayQuery(path, params) ==
  [channel |-> "vnpay", path |-> path, signature |-> "none", type |-> "none",
   order_id |-> 0, intent |-> 0, params |-> params]

\* the order number of an order, or a number no order has
OrderNumberOf(id) == IF id \in DOMAIN orders THEN orders[id].order_number ELSE <<"ORD", 0, <<0>>>>

\* the verified notification of a success or a failure for an order reference
VerifiedNotification(channel, kind, id) ==
  IF channel = "stripe"
    THEN StripeEvent("valid",
                     IF kind = "success" THEN "payment_intent.succeeded"
                                         ELSE "payment_intent.payment_failed",
                     id, 0)
    ELSE VNPayQuery("return",
                    GatewayReturn(OrderNumberOf(id),
                                  IF kind = "success" THEN <<"0", "0">> ELSE <<"2", "4">>, 0))

\* the stripe-signature headers a webhook request can carry: the one Stripe computed for
\* the payload, another one, or none
Signatures == {"valid", "bad", "none"}

\* event types of Stripe: the two handleStripeWebhook has a case for, and another one
StripeTypes == {"payment_intent.succeeded", "payment_intent.payment_failed", "charge.refunded"}

\* values of vnp_ResponseCode: success, a code of the message table, a code that is not
\* in the table, a longer code that starts like the success code, and ''
ResponseCodes == {<<"0", "0">>, <<"2", "4">>, <<"4", "2">>, <<"0", "0", "0">>, << >>}

\* the requests POST /payments/stripe/webhook can receive: every event type with the
\* signature of its payload, and a success event with another signature or none
WebhookRequests ==
  {StripeEvent("valid", type, id, 0) : type \in StripeTypes, id \in OrderRefs}
  \cup {StripeEvent(sig, "payment_intent.succeeded", id, 0) :
          sig \in Signatures \ {"valid"}, id \in OrderRefs}

\* the query parameters GET /payments/vnpay/return and POST /payments/vnpay/ipn can
\* receive for an order reference: what VNPay signed for each response code and for no
\* response code; and a success return signed with another secret, without vnp_SecureHash,
\* with an empty vnp_SecureHash, or signed for code 24 with the code replaced afterwards
ReturnParams(ref) ==
  LET fields == [vnp_ResponseCode |-> <<"0", "0">>, vnp_TransactionNo |-> <<0>>,
                 vnp_TxnRef |-> ref]
  IN {GatewayReturn(ref, code, 0) : code \in ResponseCodes}
     \cup {Sign([vnp_TransactionNo |-> <<0>>, vnp_TxnRef |-> ref], HashSecret),
           Sign(fields, "forged"),
           fields,
           [GatewayReturn(ref, <<"0", "0">>, 0) EXCEPT !["vnp_SecureHash"] = << >>],
           [GatewayReturn(ref, <<"2", "4">>, 0) EXCEPT !["vnp_ResponseCode"] = <<"0", "0">>]}

\* the requests the two VNPay routes can receive
VNPayRequests ==
  {VNPayQuery(path, params) :
     path \in {"return", "ipn"},
     params \in UNION {ReturnParams(OrderNumberOf(id)) : id \in OrderIds}}

\* the values a sender can put in place of a parameter's value
TamperValues(params, key) ==
  CASE key = "vnp_ResponseCode"  -> ResponseCodes
    [] key = "vnp_TxnRef"        -> {OrderNumberOf(id) : id \in OrderIds} \cup {<< >>}
    [] key = "vnp_TransactionNo" -> {<<0>>, <<1>>, << >>}
    [] key = "vnp_SecureHash"    ->
         {Hmac(HashSecret, SignData([params EXCEPT !["vnp_ResponseCode"] = <<"0", "0">>])),
          Hmac("forged", SignData(params)),
          << >>}
    [] OTHER                     -> {}

\* a parameter set with the value of one parameter replaced by another value
Tampered(params) ==
  UNION {{[params EXCEPT ![k] = v] : v \in {w \in TamperValues(params, k) : w # params[k]}} :
           k \in DOMAIN params \ {"vnp_SecureHashType"}}

\* the ids of the committed orders a notification resolves to: Stripe carries the order
\* id in its metadata, VNPay carries the order number in vnp_TxnRef
ResolveOrder(channel, ref) ==
  IF channel = "stripe"
    THEN {i \in DOMAIN orders : i = ref}
    ELSE {i \in DOMAIN orders : orders[i].order_number = ref}

\* the fields of the loaded Order entity that markOrderPaid reads
LoadedForPayment(row) ==
  [user_id |-> row.user_id, order_number |-> row.order_number, items |-> row.items]

\* an IPN route that takes the signature as checked by the sender
VNPayRouteResultTrustsIpn(path, params) ==
  IF path = "ipn" THEN [validateReturn(params) EXCEPT !.isValid = TRUE] ELSE validateReturn(params)

\* vnpay/return and vnpay/ipn both hand the query to handleVNPayReturn, which validates it
VNPayRouteResult(path, params) == validateReturn(params)

\* a handleStripeWebhook that throws NotFoundException for an order it cannot find
StripeOutcomeRaisesNotFound(req) ==
  IF ~StripeVerifies(webhookSecret, req.signature)
    THEN [pc |-> "rejected", response |-> BadRequest, orderId |-> 0, kind |-> "none"]
  ELSE IF req.type \notin {"payment_intent.succeeded", "payment_intent.payment_failed"}
    THEN [pc |-> "dropped", response |-> Received, orderId |-> 0, kind |-> "none"]
  ELSE IF req.order_id = 0
    THEN [pc |-> "dropped", response |-> Received, orderId |-> 0, kind |-> "none"]
  ELSE IF ResolveOrder("stripe", req.order_id) = {}
    THEN [pc |-> "not_found", response |-> NotFound, orderId |-> 0, kind |-> "none"]
  ELSE [pc |-> "settle", response |-> NoResponse, orderId |-> req.order_id,
        kind |-> IF req.type = "payment_intent.succeeded" THEN "success" ELSE "failure"]

\* handleStripeWebhook up to the order lookup: where the call goes next, with which order
StripeOutcome(req) ==
  IF ~StripeVerifies(webhookSecret, req.signature)
    THEN [pc |-> "rejected", response |-> BadRequest, orderId |-> 0, kind |-> "none"]
  ELSE IF req.type \notin {"payment_intent.succeeded", "payment_intent.payment_failed"}
    THEN [pc |-> "dropped", response |-> Received, orderId |-> 0, kind |-> "none"]
  ELSE IF req.order_id = 0 \/ ResolveOrder("stripe", req.order_id) = {}
    THEN [pc |-> "dropped", response |-> Received, orderId |-> 0, kind |-> "none"]
  ELSE [pc |-> "settle", response |-> NoResponse, orderId |-> req.order_id,
        kind |-> IF req.type = "payment_intent.succeeded" THEN "success" ELSE "failure"]

\* handleVNPayReturn up to the order lookup
VNPayOutcome(req) ==
  LET result == VNPayRouteResult(req.path, req.params)
      found  == ResolveOrder("vnpay", result.orderId)
  IN IF ~result.isValid
       THEN [pc |-> "rejected", response |-> BadRequest, orderId |-> 0, kind |-> "none"]
     ELSE IF found = {}
       THEN [pc |-> "not_found", response |-> NotFound, orderId |-> 0, kind |-> "none"]
     ELSE [pc |-> "settle", response |-> NoResponse, orderId |-> CHOOSE i \in found : TRUE,
           kind |-> IF isPaymentSuccessful(result.responseCode) THEN "success" ELSE "failure"]

\* the payment attempt a notification is about: the intent of a Stripe event, the
\* transaction of a VNPay return (0 when it names none)
AttemptOf(req) ==
  IF req.channel = "stripe" THEN req.intent
  ELSE IF "vnp_TransactionNo" \in DOMAIN req.params /\ Len(req.params["vnp_TransactionNo"]) = 1
    THEN req.params["vnp_TransactionNo"][1]
    ELSE 0

\* what the handler returns once the order is settled
SettledResponse(req) ==
  IF req.channel = "stripe" THEN Received
  ELSE LET code == Param(req.params, "vnp_ResponseCode")
       IN [status |-> "ok", success |-> isPaymentSuccessful(code),
           message |-> getResponseMessage(code)]

\* handleStripeWebhook / handleVNPayReturn up to the order lookup
receiveNotification(n, req) ==
  /\ npc[n] \in {"idle", "done", "dropped", "not_found", "rejected"}
  /\ handled < MaxDeliveries
  /\ handled' = handled + 1
  /\ LET out == IF req.channel = "stripe" THEN StripeOutcome(req) ELSE VNPayOutcome(req)
     IN /\ npc' = [npc EXCEPT ![n] = out.pc]
        /\ nResponse' = [nResponse EXCEPT ![n] = out.response]
        /\ nRequest' = [nRequest EXCEPT ![n] = req]
        /\ IF out.pc = "settle"
             THEN /\ nChannel' = [nChannel EXCEPT ![n] = req.channel]
                  /\ nKind' = [nKind EXCEPT ![n] = out.kind]
                  /\ nOrderId' = [nOrderId EXCEPT ![n] = out.orderId]
                  /\ nOrder' = [nOrder EXCEPT ![n] = LoadedForPayment(orders[out.orderId])]
             ELSE UNCHANGED <<nChannel, nKind, nOrderId, nOrder>>
  /\ UNCHANGED <<paidMails, accepted>>
  /\ UNCHANGED <<envVars, cartVars, storeVars, checkoutVars, cancelVars, adminVars, payVars, mailVars>>

\* the column values markOrderPaid writes
PaidUpdate(row) == [row EXCEPT !.payment_status = "paid", !.status = "processing"]

\* the column values markOrderPaymentFailed writes
FailedUpdate(row) == [row EXCEPT !.payment_status = "failed"]

\* whether markOrderPaid triggers the confirmation e-mail for the entity it was given
SendsPaidMail(entity) == entity.user_id \in Users

\* a markOrderPaid that lets a failed e-mail fail the call
AfterPaidMailPropagates(mailOk) == IF mailOk THEN "done" ELSE "failed"

\* markOrderPaid, lines 634-643: a failed send is caught and logged, the call goes on
AfterPaidMail(mailOk) == "done"

\* the locals of a notification handler that has ended
EndNotification(n) ==
  /\ nKind' = [nKind EXCEPT ![n] = "success"]
  /\ nChannel' = [nChannel EXCEPT ![n] = "stripe"]
  /\ nOrderId' = [nOrderId EXCEPT ![n] = 0]
  /\ nOrder' = [nOrder EXCEPT ![n] = NoOrder]
  /\ nRequest' = [nRequest EXCEPT ![n] = NoMessage]

\* markOrderPaid: update by id, then the confirmation e-mail, which is sent or fails
markOrderPaid(n, mailOk) ==
  /\ npc[n] = "settle"
  /\ nKind[n] = "success"
  /\ orders' = [orders EXCEPT ![nOrderId[n]] = PaidUpdate(@)]
  /\ accepted' = IF AttemptOf(nRequest[n]) # 0
                   THEN [accepted EXCEPT ![nOrderId[n]] = @ \cup {AttemptOf(nRequest[n])}]
                   ELSE accepted
  /\ IF SendsPaidMail(nOrder[n])
       THEN /\ paidMails' = [paidMails EXCEPT ![<<nChannel[n], nOrderId[n]>>] = @ + 1]
            /\ lastMail' = IF mailOk THEN "sent" ELSE "failed"
            /\ npc' = [npc EXCEPT ![n] = AfterPaidMail(mailOk)]
       ELSE /\ UNCHANGED <<paidMails, lastMail>>
            /\ npc' = [npc EXCEPT ![n] = "done"]
  /\ nResponse' = [nResponse EXCEPT ![n] = SettledResponse(nRequest[n])]
  /\ EndNotification(n)
  /\ UNCHANGED <<productVars, stock, carts, cartItems>>
  /\ UNCHANGED handled
  /\ UNCHANGED <<orderMails, mailQueue>>
  /\ UNCHANGED <<envVars, cartVars, checkoutVars, cancelVars, adminVars, payVars>>

\* markOrderPaymentFailed: update by id
markOrderPaymentFailed(n) ==
  /\ npc[n] = "settle"
  /\ nKind[n] = "failure"
  /\ orders' = [orders EXCEPT ![nOrderId[n]] = FailedUpdate(@)]
  /\ npc' = [npc EXCEPT ![n] = "done"]
  /\ nResponse' = [nResponse EXCEPT ![n] = SettledResponse(nRequest[n])]
  /\ EndNotification(n)
  /\ UNCHANGED <<productVars, stock, carts, cartItems>>
  /\ UNCHANGED <<paidMails, handled, accepted>>
  /\ UNCHANGED <<envVars, cartVars, checkoutVars, cancelVars, adminVars, payVars, mailVars>>

\* a findOrderForPayment that only refuses orders already paid
PaymentAllowedUnlessPaid(row) == row.payment_status # "paid"

\* findOrderForPayment, lines 571-577: an order that is paid or refunded is refused
PaymentAllowed(row) == row.payment_status \notin {"paid", "refunded"}

\* getPaymentStatus, lines 497-513: the payment fields of the caller's order
getPaymentStatus(orderId, userId) ==
  IF orderId \in DOMAIN orders /\ orders[orderId].user_id = userId
    THEN [status |-> "ok", success |-> TRUE, message |-> orders[orderId].payment_status]
    ELSE NotFound

\* the locals of a payment-creation call that has ended
EndPayment(a) ==
  /\ paymentUrl' = [paymentUrl EXCEPT ![a] = << >>]
  /\ pChannel' = [pChannel EXCEPT ![a] = "stripe"]
  /\ pOrderId' = [pOrderId EXCEPT ![a] = 0]

\* createStripePaymentIntent / createVNPayPaymentUrl: findOrderForPayment
paymentStart(a, channel, id, u) ==
  /\ ppc[a] \in {"idle", "done", "not_found", "rejected", "failed"}
  /\ IF ~FindOne(id, u)
       THEN /\ ppc' = [ppc EXCEPT ![a] = "not_found"]
            /\ EndPayment(a)
       ELSE /\ ppc' = [ppc EXCEPT ![a] =
                         IF ~PaymentAllowed(orders[id]) THEN "rejected" ELSE "gateway"]
            /\ pChannel' = [pChannel EXCEPT ![a] = channel]
            /\ pOrderId' = [pOrderId EXCEPT ![a] = id]
            /\ UNCHANGED paymentUrl
  /\ UNCHANGED attempts
  /\ UNCHANGED <<envVars, cartVars, storeVars, checkoutVars, cancelVars, notifyVars, adminVars, mailVars>>

\* the client address createVNPayUrl passes when the request carries none, line 308
DefaultIp == <<"127", ".", "0", ".", "0", ".", "1">>

\* stripeService.createPaymentIntent (which Stripe may refuse) or
\* vnpayService.createPaymentUrl for the client address of the request: a new payment
\* attempt exists for the order
issueAttempt(a, gatewayOk, ipAddr) ==
  /\ ppc[a] = "gateway"
  /\ Len(attempts[pOrderId[a]]) < MaxAttempts
  /\ pChannel[a] = "vnpay" => gatewayOk
  /\ IF gatewayOk
       THEN /\ attempts' = [attempts EXCEPT ![pOrderId[a]] = Append(@, pChannel[a])]
            /\ paymentUrl' = [paymentUrl EXCEPT ![a] =
                                IF pChannel[a] = "vnpay"
                                  THEN createPaymentUrl(orders[pOrderId[a]], ipAddr)
                                  ELSE << >>]
            /\ ppc' = [ppc EXCEPT ![a] = "record"]
            /\ UNCHANGED <<pChannel, pOrderId>>
       ELSE /\ ppc' = [ppc EXCEPT ![a] = "failed"]
            /\ EndPayment(a)
            /\ UNCHANGED attempts
  /\ UNCHANGED <<envVars, cartVars, storeVars, checkoutVars, cancelVars, notifyVars, adminVars, mailVars>>

\* the update of payment_method that follows
recordMethod(a) ==
  /\ ppc[a] = "record"
  /\ orders' = [orders EXCEPT ![pOrderId[a]].payment_method = pChannel[a]]
  /\ ppc' = [ppc EXCEPT ![a] = "done"]
  /\ EndPayment(a)
  /\ UNCHANGED <<productVars, stock, carts, cartItems>>
  /\ UNCHANGED attempts
  /\ UNCHANGED <<envVars, cartVars, checkoutVars, cancelVars, notifyVars, adminVars, mailVars>>

\* a processRefund that checks only that a payment was received at some time
RefundResponseOncePaid(orderId) ==
  IF orderId \notin DOMAIN orders
    THEN NotFound
    ELSE IF orders[orderId].payment_status \notin {"paid", "refunded"}
      THEN BadRequest
      ELSE IF orders[orderId].payment_method = "stripe"
        THEN BadRequest
        ELSE [status |-> "ok", success |-> TRUE, message |-> ""]

\* processRefund, lines 519-546: what the call throws or returns for the row it reads
RefundResponse(orderId) ==
  IF orderId \notin DOMAIN orders
    THEN NotFound
    ELSE IF orders[orderId].payment_status # "paid"
      THEN BadRequest
      ELSE IF orders[orderId].payment_method = "stripe"
        THEN BadRequest
        ELSE [status |-> "ok", success |-> TRUE, message |-> ""]

\* processRefund (admin): a paid order that was not paid through Stripe becomes refunded;
\* every other call throws and changes nothing
processRefund(id) ==
  /\ RefundResponse(id).success
  /\ orders' = [orders EXCEPT ![id].payment_status = "refunded"]
  /\ UNCHANGED <<productVars, stock, carts, cartItems>>
  /\ UNCHANGED <<envVars, cartVars, checkoutVars, cancelVars, notifyVars, adminVars, payVars, mailVars>>

\* the notifications the gateways send about the payment attempts of an order: Stripe
\* reports on each intent on its own; VNPay reports one successful transaction per vnp_TxnRef
GatewayNotifications(o) ==
  LET issued == IF o \in DOMAIN orders THEN DOMAIN attempts[o] ELSE {}
  IN {StripeEvent("valid", type, o, i) :
        type \in {"payment_intent.succeeded", "payment_intent.payment_failed"},
        i \in {j \in issued : attempts[o][j] = "stripe"}}
     \cup
     {VNPayQuery(path, GatewayReturn(OrderNumberOf(o), code, i)) :
        path \in {"return", "ipn"},
        code \in {c \in {<<"0", "0">>, <<"2", "4">>} :
                    c = <<"0", "0">> =>
                       \A j \in accepted[o] : attempts[o][j] # "vnpay"},
        i \in {j \in issued : attempts[o][j] = "vnpay"}}

\* sendOrderConfirmation of createOrder ends: the e-mail is sent, or the failure is logged
orderMailSettles(id, mailOk) ==
  /\ id \in mailQueue
  /\ mailQueue' = mailQueue \ {id}
  /\ lastMail' = IF mailOk THEN "sent" ELSE "failed"
  /\ UNCHANGED orderMails
  /\ UNCHANGED <<envVars, cartVars, storeVars, checkoutVars, cancelVars, notifyVars, adminVars, payVars>>

\* ------------------------------------------------------------ clock
Tick ==
  /\ now < MaxTime
  /\ now' = now + 1
  /\ UNCHANGED <<tz, webhookSecret, tmnCode, cartVars>>
  /\ UNCHANGED <<storeVars, checkoutVars, cancelVars, notifyVars, adminVars, payVars, mailVars>>

\* ------------------------------------------------------------ specifications
InitStore ==
  /\ now = 0
  /\ catalog = Products
  /\ prodPrice = [p \in Products |-> CatalogPrice(p)]
  /\ prodName = [p \in Products |-> "Lamp"]
  /\ isActive = [p \in Products |-> TRUE]
  /\ stock = [p \in Products |-> InitialStock]
  /\ cartItems = [k \in 1..MaxCarts |-> << >>]
  /\ orders = << >>
  /\ cpc = [c \in CheckoutProcs |-> "idle"]
  /\ cUser = [c \in CheckoutProcs |-> "u1"]
  /\ cDto = [c \in CheckoutProcs |-> "none"]
  /\ cCart = [c \in CheckoutProcs |-> EmptyCartResponse]
  /\ cOrderNumber = [c \in CheckoutProcs |-> << >>]
  /\ cErr = [c \in CheckoutProcs |-> "none"]
  /\ txOrder = [c \in CheckoutProcs |-> NoOrder]
  /\ txDec = [c \in CheckoutProcs |-> NoDec]
  /\ cStock0 = [c \in CheckoutProcs |-> NoDec]
  /\ cOrders0 = [c \in CheckoutProcs |-> 0]
  /\ cCleared = [c \in CheckoutProcs |-> << >>]
  /\ txLog = [c \in CheckoutProcs |-> << >>]
  /\ kpc = [k \in CancelProcs |-> "idle"]
  /\ kUser = [k \in CancelProcs |-> "u1"]
  /\ kOrderId = [k \in CancelProcs |-> 0]
  /\ kOrder = [k \in CancelProcs |-> NoOrder]
  /\ kIdx = [k \in CancelProcs |-> 0]
  /\ restored = [o \in OrderIds |-> [p \in Products |-> 0]]
  /\ npc = [n \in NotifyProcs |-> "idle"]
  /\ nKind = [n \in NotifyProcs |-> "success"]
  /\ nChannel = [n \in NotifyProcs |-> "stripe"]
  /\ nOrderId = [n \in NotifyProcs |-> 0]
  /\ nOrder = [n \in NotifyProcs |-> NoOrder]
  /\ paidMails = [x \in Channels \X OrderIds |-> 0]
  /\ handled = 0
  /\ apc = "idle"
  /\ aOrderId = 0
  /\ aOrder = NoOrder
  /\ adminOps = 0
  /\ nRequest = [n \in NotifyProcs |-> NoMessage]
  /\ nResponse = [n \in NotifyProcs |-> NoResponse]
  /\ accepted = [o \in OrderIds |-> {}]
  /\ ppc = [a \in PayProcs |-> "idle"]
  /\ pChannel = [a \in PayProcs |-> "stripe"]
  /\ pOrderId = [a \in PayProcs |-> 0]
  /\ attempts = [o \in OrderIds |-> << >>]
  /\ paymentUrl = [a \in PayProcs |-> << >>]
  /\ orderMails = {}
  /\ mailQueue = {}
  /\ lastMail = "none"
  /\ gpc = [g \in CartProcs |-> "idle"]
  /\ gOp = [g \in CartProcs |-> "getCart"]
  /\ gUser = [g \in CartProcs |-> "null"]
  /\ gSession = [g \in CartProcs |-> "null"]
  /\ gProduct = [g \in CartProcs |-> "p1"]
  /\ gItemCart = [g \in CartProcs |-> 0]
  /\ gQty = [g \in CartProcs |-> 1]
  /\ gCart = [g \in CartProcs |-> 0]
  /\ gRead = [g \in CartProcs |-> NoProduct]
  /\ gItem = [g \in CartProcs |-> NoItem]
  /\ gGuest = [g \in CartProcs |-> NoCart]
  /\ gIdx = [g \in CartProcs |-> 0]
  /\ gResult = [g \in CartProcs |-> "none"]
  /\ gItems0 = [g \in CartProcs |-> [k \in 1..MaxCarts |-> << >>]]

\* a server whose local time is UTC
Init ==
  /\ InitStore
  /\ carts = [i \in 1..2 |-> [user_id |-> IF i = 1 THEN "u1" ELSE "u2", session_id |-> "null"]]
  /\ tz = 0
  /\ webhookSecret = "whsec"
  /\ tmnCode = <<"TMNCODE">>

\* a server in any of the modelled time zones
InitAnyZone ==
  /\ InitStore
  /\ carts = [i \in 1..2 |-> [user_id |-> IF i = 1 THEN "u1" ELSE "u2", session_id |-> "null"]]
  /\ tz \in 0..MaxTzOffset
  /\ webhookSecret = "whsec"
  /\ tmnCode = <<"TMNCODE">>

\* a server with or without STRIPE_WEBHOOK_SECRET
InitAnyConfig ==
  /\ InitStore
  /\ carts = [i \in 1..2 |-> [user_id |-> IF i = 1 THEN "u1" ELSE "u2", session_id |-> "null"]]
  /\ tz = 0
  /\ webhookSecret \in {"", "whsec"}
  /\ tmnCode = <<"TMNCODE">>

\* the steps of a createOrder call that has started
createOrderRun(c) ==
  \/ validateStock(c)
  \/ createOrderNumber(c)
  \/ saveOrderRows(c)
  \/ reduceStock(c)
  \/ clearCart(c)
  \/ commitTransaction(c)

createOrderStep(c, dtos) ==
  \/ \E u \in Users, dto \in dtos : createOrderStart(c, u, dto)
  \/ createOrderRun(c)

cancelOrderStep(k) ==
  \/ \E id \in OrderIds, u \in Users : cancelOrderStart(k, id, u)
  \/ restoreStock(k)
  \/ cancelOrderSave(k)

notificationStep(n) ==
  \/ \E ch \in Channels, kind \in NotificationKinds, id \in OrderIds :
        receiveNotification(n, VerifiedNotification(ch, kind, id))
  \/ \E mailOk \in BOOLEAN : markOrderPaid(n, mailOk)
  \/ markOrderPaymentFailed(n)

AdminDtos == [status : OrderStatus \cup {"none"}, payment_status : PaymentStatus \cup {"none"}]

\* the requests that change the status only
StatusDtos == {dto \in AdminDtos : dto.status # "none" /\ dto.payment_status = "none"}

\* no createOrder call is in progress
CheckoutIdle == \A c \in CheckoutProcs : cpc[c] \in {"idle", "done", "failed"}

NoRequest ==
  /\ CheckoutIdle
  /\ \A k \in CancelProcs : kpc[k] \notin {"restore", "save"}
  /\ \A n \in NotifyProcs : npc[n] # "settle"
  /\ \A a \in PayProcs : ppc[a] \notin {"gateway", "record"}
  /\ apc = "idle"

\* concurrent checkouts of two users and their cart edits, on one product
Next ==
  \/ \E u \in Users, q \in 1..MaxQty : addItem(u, "p1", q)
  \/ \E c \in CheckoutProcs : createOrderStep(c, {"none"})
  \/ \E c \in CheckoutProcs : createOrderFails(c)

Spec == Init /\ [][Next]_vars

\* one checkout at a time against a catalog the admin may delete from
NextCatalog ==
  \/ \E p \in Products, q \in 1..MaxQty : addItem("u1", p, q)
  \/ createOrderStep("c1", {"none"})
  \/ createOrderFails("c1")
  \/ \E p \in Products : removeProduct(p)

SpecCatalog == Init /\ [][NextCatalog]_vars

\* checkouts one at a time, cancels concurrently, on one product
NextCancel ==
  \/ \E q \in 1..MaxQty : addItem("u1", "p1", q)
  \/ createOrderStep("c1", {"none"})
  \/ \E k \in CancelProcs : cancelOrderStep(k)

SpecCancel == Init /\ [][NextCancel]_vars

\* a cancel and the admin's status changes against the first orders created
NextStatus ==
  \/ \E q \in 1..MaxQty : addItem("u1", "p1", q)
  \/ Len(orders) < MaxStatusOrders /\ createOrderStep("c1", {"none"})
  \/ cancelOrderStep("k1")
  \/ \E id \in OrderIds, dto \in StatusDtos : updateStatusStart(id, dto)
  \/ updateStatusSave

SpecStatus == Init /\ [][NextStatus]_vars

\* settlement: verified notifications and the admin override against created orders
NextPay ==
  \/ \E q \in 1..MaxQty : addItem("u1", "p1", q)
  \/ createOrderStep("c1", {"none"})
  \/ notificationStep("n1")
  \/ \E id \in OrderIds, dto \in AdminDtos : updateStatusStart(id, dto)
  \/ updateStatusSave

SpecPay == Init /\ [][NextPay]_vars

\* requests strictly one after another, over several days, in any time zone
NextSeq ==
  \/ NoRequest /\ Tick
  \/ NoRequest /\ \E p \in Products, q \in 1..MaxQty : addItem("u1", p, q)
  \/ createOrderStep("c1", {"none"})
  \/ createOrderFails("c1")

SpecSeq == InitAnyZone /\ [][NextSeq]_vars

\* a cancel against the settlement of a payment, on the first orders created
NextSettle ==
  \/ \E q \in 1..MaxQty : addItem("u1", "p1", q)
  \/ Len(orders) < MaxStatusOrders /\ createOrderStep("c1", {"none"})
  \/ cancelOrderStep("k1")
  \/ notificationStep("n1")

SpecSettle == Init /\ [][NextSettle]_vars

paymentStep(a) ==
  \/ \E ch \in Channels, id \in OrderIds, u \in Users : paymentStart(a, ch, id, u)
  \/ \E gatewayOk \in BOOLEAN : issueAttempt(a, gatewayOk, DefaultIp)
  \/ recordMethod(a)

\* payment attempts of the customer for the first orders created (of one unit each),
\* their settlement and refunds; the checkouts run with nothing else in progress
NextIntent ==
  \/ NoRequest /\ cartItems[FindCart("u1", "null")] = << >> /\ addItem("u1", "p1", 1)
  \/ /\ NoRequest
     /\ Len(orders) < MaxStatusOrders
     /\ createOrderStart("c1", "u1", "none")
  \/ createOrderRun("c1")
  \/ /\ CheckoutIdle
     /\ \E ch \in Channels, id \in DOMAIN orders : paymentStart("a1", ch, id, "u1")
  \/ CheckoutIdle /\ \E gatewayOk \in BOOLEAN : issueAttempt("a1", gatewayOk, DefaultIp)
  \/ CheckoutIdle /\ recordMethod("a1")
  \/ /\ CheckoutIdle
     /\ \E id \in DOMAIN orders :
           receiveNotification("n1", VerifiedNotification("vnpay", "success", id))
  \/ markOrderPaid("n1", TRUE)
  \/ CheckoutIdle /\ \E id \in DOMAIN orders : processRefund(id)

SpecIntent == Init /\ [][NextIntent]_vars

\* payment attempts for the first orders created and what the gateways report about them
NextCharge ==
  \/ NoRequest /\ addItem("u1", "p1", 1)
  \/ /\ NoRequest
     /\ Len(orders) < MaxStatusOrders
     /\ \E u \in Users : createOrderStart("c1", u, "none")
  \/ createOrderRun("c1")
  \/ CheckoutIdle /\ paymentStep("a1")
  \/ /\ CheckoutIdle
     /\ \E o \in OrderIds : \E req \in GatewayNotifications(o) : receiveNotification("n1", req)
  \/ markOrderPaid("n1", TRUE)
  \/ markOrderPaymentFailed("n1")

SpecCharge == Init /\ [][NextCharge]_vars

\* every request the payment endpoints can receive, verified or not, with the webhook
\* secret configured or not, about orders of one unit each
NextNotify ==
  \/ NoRequest /\ cartItems[FindCart("u1", "null")] = << >> /\ addItem("u1", "p1", 1)
  \/ /\ NoRequest
     /\ Len(orders) < MaxStatusOrders
     /\ createOrderStart("c1", "u1", "none")
  \/ createOrderRun("c1")
  \/ CheckoutIdle /\ \E req \in WebhookRequests \cup VNPayRequests : receiveNotification("n1", req)
  \/ markOrderPaid("n1", TRUE)
  \/ markOrderPaymentFailed("n1")

SpecNotify == InitAnyConfig /\ [][NextNotify]_vars

\* a return that VNPay signed is received; while it is handled, copies of it with one
\* value replaced arrive on either route
NextTamper ==
  \/ NoRequest /\ cartItems[FindCart("u1", "null")] = << >> /\ addItem("u1", "p1", 1)
  \/ /\ NoRequest
     /\ Len(orders) < MaxStatusOrders
     /\ createOrderStart("c1", "u1", "none")
  \/ createOrderRun("c1")
  \/ /\ CheckoutIdle
     /\ \E id \in OrderIds, code \in ResponseCodes :
          receiveNotification("n1",
                              VNPayQuery("return", GatewayReturn(OrderNumberOf(id), code, 0)))
  \/ /\ npc["n1"] \in {"settle", "not_found"}
     /\ \E path \in {"return", "ipn"}, params \in Tampered(nRequest["n1"].params) :
          receiveNotification("n2", VNPayQuery(path, params))
  \/ markOrderPaid("n1", TRUE)
  \/ markOrderPaymentFailed("n1")

SpecTamper == Init /\ [][NextTamper]_vars

\* checkouts that commit or roll back, their confirmation e-mails, and paid notifications
\* whose e-mail is sent or fails
NextMail ==
  \/ NoRequest /\ \E p \in Products : addItem("u1", p, 1)
  \/ /\ NoRequest
     /\ Len(orders) < MaxStatusOrders
     /\ createOrderStart("c1", "u1", "none")
  \/ createOrderRun("c1")
  \/ createOrderFails("c1")
  \/ \E id \in OrderIds, mailOk \in BOOLEAN : orderMailSettles(id, mailOk)
  \/ /\ CheckoutIdle
     /\ \E ch \in Channels, id \in DOMAIN orders :
          receiveNotification("n1", VerifiedNotification(ch, "success", id))
  \/ \E mailOk \in BOOLEAN : markOrderPaid("n1", mailOk)

SpecMail == Init /\ [][NextMail]_vars

\* one customer's orders and cancellations, one request at a time, with database
\* statements that may fail
NextCancelFail ==
  \/ NoRequest /\ \E p \in Products : addItem("u1", p, 1)
  \/ /\ NoRequest
     /\ Len(orders) < MaxStatusOrders
     /\ createOrderStart("c1", "u1", "none")
  \/ createOrderRun("c1")
  \/ /\ NoRequest
     /\ \E id \in OrderIds :
          /\ \A p \in Products : restored[id][p] <= MaxCancelRetries
          /\ cancelOrderStart("k1", id, "u1")
  \/ restoreStock("k1")
  \/ cancelOrderSave("k1")
  \/ cancelOrderFails("k1")

SpecCancelFail == Init /\ [][NextCancelFail]_vars

\* a customer fills the cart and checks out while an admin edits prices and names
\* between the requests
NextPrice ==
  \/ NoRequest /\ \E p \in Products : addItem("u1", p, 1)
  \/ /\ NoRequest
     /\ \E p \in Products, dto \in [price : {250, 1000}] \cup [name : {"Lamp", "Desk lamp"}] :
          updateProduct(p, dto)
  \/ /\ NoRequest
     /\ Len(orders) < MaxStatusOrders
     /\ createOrderStart("c1", "u1", "none")
  \/ createOrderRun("c1")

SpecPrice == Init /\ [][NextPrice]_vars

\* the life of the first orders of a customer: checkout, the first payment request and
\* the first cancel request, a notification, refund and the admin's override, one
\* request at a time
NextLifecycle ==
  \/ /\ NoRequest
     /\ Len(orders) < MaxStatusOrders
     /\ cartItems[FindCart("u1", "null")] = << >>
     /\ addItem("u1", "p1", 1)
  \/ /\ NoRequest
     /\ Len(orders) < MaxStatusOrders
     /\ createOrderStart("c1", "u1", "none")
  \/ createOrderRun("c1")
  \/ /\ NoRequest
     /\ kpc["k1"] = "idle"
     /\ \E id \in DOMAIN orders : cancelOrderStart("k1", id, "u1")
  \/ restoreStock("k1")
  \/ cancelOrderSave("k1")
  \/ /\ NoRequest
     /\ ppc["a1"] = "idle"
     /\ \E id \in DOMAIN orders : attempts[id] = << >> /\ paymentStart("a1", "vnpay", id, "u1")
  \/ \E gatewayOk \in BOOLEAN : issueAttempt("a1", gatewayOk, DefaultIp)
  \/ recordMethod("a1")
  \/ /\ NoRequest
     /\ \E kind \in NotificationKinds, id \in DOMAIN orders :
          /\ handled = 0
          /\ receiveNotification("n1", VerifiedNotification("vnpay", kind, id))
  \/ markOrderPaid("n1", TRUE)
  \/ markOrderPaymentFailed("n1")
  \/ NoRequest /\ \E id \in DOMAIN orders : processRefund(id)
  \/ NoRequest /\ \E id \in DOMAIN orders, dto \in AdminDtos : updateStatusStart(id, dto)
  \/ updateStatusSave

SpecLifecycle == Init /\ [][NextLifecycle]_vars

\* a shop in which nobody has opened a cart yet
InitCart ==
  /\ InitStore
  /\ carts = << >>
  /\ tz = 0
  /\ webhookSecret = "whsec"
  /\ tmnCode = <<"TMNCODE">>

\* cart requests of a user and of a guest session, one at a time, against a catalog
\* whose stock and visibility the admin edits
NextCart ==
  \/ \E op \in {"getCart", "addItem", "updateItem", "removeItem", "clearCart", "mergeCart"},
        p \in Products, q \in 1..MaxCartQty :
       \/ cartRequest("g1", op, "u1", IF op = "mergeCart" THEN "s1" ELSE "null",
                      FindCart("u1", "null"), p, q)
       \/ op # "mergeCart" /\ cartRequest("g1", op, "null", "s1", FindCart("null", "s1"), p, q)
  \/ cartStep("g1")
  \/ /\ gpc["g1"] = "idle"
     /\ \E dto \in [stock_quantity : 0..InitialStock] \cup [is_active : BOOLEAN] :
          updateProduct("p1", dto)

SpecCart == InitCart /\ [][NextCart]_vars

\* two cart requests at a time: among the requests that follow one another, one is
\* joined by a second request that arrives while it is running; a request without user
\* and session arrives while no cart without both exists, and the guest adds items until
\* a guest cart has been merged
NextCartRace ==
  \/ \E g \in CartProcs, op \in {"getCart", "addItem", "mergeCart"} :
       /\ g = "g2" => gpc["g1"] # "idle" /\ gResult["g2"] = "none" /\ op # "getCart"
       /\ \/ cartRequest(g, op, "u1", IF op = "mergeCart" THEN "s1" ELSE "null", 0, "p1", 1)
          \/ /\ op = "addItem"
             /\ \A i \in DOMAIN carts : carts[i] # NoCart
             /\ cartRequest(g, op, "null", "s1", 0, "p1", 1)
          \/ /\ op = "getCart"
             /\ \A i \in DOMAIN carts :
                  IF carts[i] = NoCart
                    THEN TRUE
                    ELSE carts[i].user_id # "null" \/ carts[i].session_id # "null"
             /\ cartRequest(g, op, "null", "null", 0, "p1", 1)
  \/ \E g \in CartProcs :
       \/ getOrCreateCartFind(g)
       \/ getOrCreateCartSave(g)
       \/ addItemRead(g)
       \/ addItemSave(g)
       \/ mergeCartFindGuest(g)
       \/ mergeItemFind(g)
       \/ mergeItemSave(g)
       \/ mergeCartDeleteGuest(g)

SpecCartRace == InitCart /\ [][NextCartRace]_vars

\* ------------------------------------------------------------ properties
InTx == {"validate", "number", "save", "stock", "clear", "commit"}

\* C1: under any interleaving of concurrent createOrder calls and cart operations,
\* every product's stock_quantity is >= 0 in every reachable state.
C1_StockNeverNegative == \A p \in Products : stock[p] >= 0

\* C2: a createOrder call that fails (empty cart, missing product, insufficient stock,
\* or a failed write) leaves no Order, OrderItem or ShippingAddress row of the attempt
\* and leaves every product's stock_quantity at its value before the call.
C2_FailedCheckoutChangesNothing ==
  [][\A c \in CheckoutProcs :
       /\ (cpc[c] \in InTx /\ cpc'[c] = "failed") =>
             /\ stock' = cStock0[c]
             /\ Len(orders') = cOrders0[c]
             /\ orders' = orders
             /\ txOrder'[c] = NoOrder
             /\ txDec'[c] = NoDec
       /\ (cpc[c] \notin InTx /\ cpc'[c] = "failed") =>
             /\ stock' = stock
             /\ orders' = orders
             /\ txOrder'[c] = NoOrder
             /\ txDec'[c] = NoDec]_vars

C2_Witness ==
  /\ cpc["c1"] = "failed"
  /\ cErr["c1"] = "InsufficientStock"
  /\ stock = [p \in Products |-> IF p = "p1" THEN InitialStock - 1 ELSE InitialStock]

\* C3: whenever createOrder fails, the caller's cart still holds exactly the items it
\* held before the call (the cart is emptied only if the order commits).
C3_FailedCheckoutKeepsCart ==
  [][\A c \in CheckoutProcs :
       (cpc[c] \in InTx /\ cpc'[c] = "failed") =>
          FormatCartResponse(cartItems'[FindCart(cUser[c], "null")]) = cCart[c]]_vars

\* C4: when createOrder succeeds with nothing else running, every cart line's product
\* has stock_quantity = its value before the call minus the ordered quantity, the cart
\* is empty, and the new order has one item per line and its address and is pending
\* with payment_status pending.
C4_SuccessfulCheckoutEffect ==
  [][\A c \in CheckoutProcs :
       (cpc[c] = "commit" /\ cpc'[c] = "done") =>
          LET lines == cCart[c].items
              o     == orders'[Len(orders')]
          IN /\ \A p \in Products :
                   stock'[p] = cStock0[c][p]
                      - SumSeq([i \in 1..Len(lines) |->
                                  IF lines[i].product_id = p THEN lines[i].quantity ELSE 0])
             /\ cartItems'[FindCart(cUser[c], "null")] = << >>
             /\ Len(orders') = cOrders0[c] + 1
             /\ o.user_id = cUser[c]
             /\ Len(o.items) = Len(lines)
             /\ \A i \in 1..Len(lines) :
                   /\ o.items[i].product_id = lines[i].product_id
                   /\ o.items[i].quantity = lines[i].quantity
             /\ o.shipping_address.first_name = cUser[c]
             /\ o.status = "pending"
             /\ o.payment_status = "pending"]_vars

C4_Witness ==
  /\ cpc["c1"] = "done"
  /\ Len(orders) = 1
  /\ Len(orders[1].items) = 2
  /\ orders[1].items[1].quantity = 2
  /\ stock["p1"] = InitialStock - 2
  /\ cartItems[FindCart("u1", "null")] = << >>

\* C5: every order built by createOrder from a cart with N distinct products has
\* exactly N OrderItems, one per product, each with subtotal = price * quantity; the
\* order's subtotal is the sum of the items' subtotals and its total is
\* subtotal + shipping_fee + tax - discount.
C5_OrderTotalsConsistent ==
  LET WellFormed(o) ==
        /\ Len(o.items) >= 1
        /\ \A i, j \in 1..Len(o.items) :
              o.items[i].product_id = o.items[j].product_id => i = j
        /\ \A i \in 1..Len(o.items) :
              o.items[i].subtotal = o.items[i].price * o.items[i].quantity
        /\ o.subtotal = SumSeq([i \in 1..Len(o.items) |-> o.items[i].subtotal])
        /\ o.total = o.subtotal + o.shipping_fee + o.tax - o.discount
  IN /\ \A i \in DOMAIN orders : WellFormed(orders[i])
     /\ \A c \in CheckoutProcs :
           txOrder[c] # NoOrder =>
              /\ WellFormed(txOrder[c])
              /\ Len(txOrder[c].items) =
                    Cardinality({cCart[c].items[i].product_id : i \in 1..Len(cCart[c].items)})

C5_Witness ==
  \E i \in DOMAIN orders :
     /\ Len(orders[i].items) = 2
     /\ orders[i].subtotal = CatalogPrice("p1") + CatalogPrice("p2")
     /\ orders[i].total = orders[i].subtotal

\* C6: under sequential execution, a newly created order never receives an order
\* number that an existing order already has, at any time of day.
C6_SequentialNumbersFresh ==
  \A c \in CheckoutProcs :
     cpc[c] = "save" =>
        \A i \in DOMAIN orders : orders[i].order_number # cOrderNumber[c]

\* C7: cancelOrder on an order whose status is processing, shipped, delivered or
\* cancelled fails with the invalid-state error and leaves the order's status, its
\* payment_status and every product's stock_quantity unchanged.
C7_CancelNonPendingRejected ==
  [][\A k \in CancelProcs :
       /\ (kpc[k] # "restore" /\ kpc'[k] = "restore") =>
             orders[kOrderId'[k]].status = "pending"
       /\ (kpc[k] # "invalid_state" /\ kpc'[k] = "invalid_state") =>
             /\ \E id \in DOMAIN orders : orders[id].status # "pending"
             /\ orders' = orders
             /\ stock' = stock
             /\ restored' = restored]_vars

C7_Witness ==
  /\ kpc["k1"] = "invalid_state"
  /\ Len(orders) = 1
  /\ orders[1].status = "shipped"
  /\ stock["p1"] = InitialStock - orders[1].items[1].quantity

\* C8: for every order, across any interleaving of cancelOrder requests, each line's
\* quantity is added back to its product's stock_quantity at most once.
C8_RestoredAtMostOnce ==
  \A o \in OrderIds : \A p \in Products : restored[o][p] <= 1

\* C9: markOrderPaid moves status to processing only if the order is still pending;
\* for an order that is cancelled, shipped or delivered it leaves the status unchanged.
C9_PaidKeepsNonPendingStatus ==
  [][\A n \in NotifyProcs :
       (npc[n] = "settle" /\ nKind[n] = "success" /\ npc'[n] = "done") =>
          (orders[nOrderId[n]].status \in {"cancelled", "shipped", "delivered"} =>
             orders'[nOrderId[n]].status = orders[nOrderId[n]].status)]_vars

\* C10: processing the same verified payment-success notification twice triggers the
\* confirmation notification only once.
C10_ReplayTriggersNoSecondMail ==
  \A x \in Channels \X OrderIds : paidMails[x] <= 1

\* C11: excluding the admin status override, every change of an order's payment_status
\* is pending -> paid, pending -> failed or paid -> refunded; once paid or refunded, a
\* later verified notification does not change it.
C11_PaymentStatusTransitions ==
  [][\A id \in DOMAIN orders :
       (/\ ~(apc = "save" /\ apc' = "idle")
        /\ orders'[id].payment_status # orders[id].payment_status)
       => <<orders[id].payment_status, orders'[id].payment_status>> \in
             {<<"pending", "paid">>, <<"pending", "failed">>, <<"paid", "refunded">>}]_vars

\* C12: excluding the admin status override, an order's status becomes cancelled only
\* from pending: under any interleaving of cancelOrder with payment settlement, no step
\* takes the stored status from processing, shipped or delivered to cancelled.
C12_CancelledOnlyFromPending ==
  [][\A id \in DOMAIN orders :
       (/\ ~(apc = "save" /\ apc' = "idle")
        /\ orders'[id].status = "cancelled"
        /\ orders[id].status # "cancelled")
       => orders[id].status = "pending"]_vars

\* C13: creating a Stripe payment intent or a VNPay payment URL for an order whose
\* payment_status is paid or refunded is rejected, no gateway intent or URL is produced
\* and the order (payment_method included) is unchanged; for an order that is not paid
\* or refunded the call goes on to the gateway and records the chosen method as the
\* order's payment_method.
C13_PaidOrderRefusesNewPayment ==
  [][\A a \in PayProcs :
       LET id      == pOrderId'[a]
           started == /\ ppc[a] \in {"idle", "done", "not_found", "rejected", "failed"}
                      /\ ppc'[a] \in {"rejected", "gateway"}
                      /\ <<ppc'[a], pOrderId'[a], pChannel'[a]>> # <<ppc[a], pOrderId[a], pChannel[a]>>
       IN /\ (started /\ orders[id].payment_status \in {"paid", "refunded"})
               => /\ ppc'[a] = "rejected"
                  /\ attempts' = attempts
                  /\ orders' = orders
          /\ (started /\ orders[id].payment_status \notin {"paid", "refunded"})
               => ppc'[a] = "gateway"
          /\ (ppc[a] = "gateway" /\ ppc'[a] = "record")
               => attempts'[pOrderId[a]] = Append(attempts[pOrderId[a]], pChannel[a])
          /\ (ppc[a] = "record" /\ ppc'[a] = "done")
               => orders'[pOrderId[a]].payment_method = pChannel[a]]_vars

C13_Witness ==
  /\ ppc["a1"] = "rejected"
  /\ pOrderId["a1"] = 1
  /\ Len(orders) = 1
  /\ orders[1].payment_status = "refunded"
  /\ orders[1].payment_method = "vnpay"
  /\ attempts[1] = <<"vnpay">>

\* C14: an order is never charged twice: among all payment attempts issued for it while
\* it is unpaid, at most one ends in a successful charge that the system accepts.
C14_AtMostOneAcceptedCharge ==
  \A o \in OrderIds : Cardinality(accepted[o]) <= 1

C16_UnresolvableStripeEventAcknowledged ==
  [][\A n \in NotifyProcs :
       LET req == nRequest'[n]
           receiving ==
             /\ handled' # handled
             /\ <<npc'[n], nRequest'[n], nResponse'[n]>> # <<npc[n], nRequest[n], nResponse[n]>>
       IN (/\ receiving
           /\ req.channel = "stripe"
           /\ req.signature = "valid"
           /\ webhookSecret # ""
           /\ \/ req.type \notin {"payment_intent.succeeded", "payment_intent.payment_failed"}
              \/ req.order_id = 0
              \/ req.order_id \notin DOMAIN orders)
          => /\ npc'[n] = "dropped"
             /\ nResponse'[n] = Received
             /\ orders' = orders]_vars

C16_Witness ==
  /\ npc["n1"] = "dropped"
  /\ nResponse["n1"] = Received
  /\ nRequest["n1"].type = "payment_intent.succeeded"
  /\ nRequest["n1"].signature = "valid"
  /\ nRequest["n1"].order_id = Len(orders) + 1
  /\ Len(orders) = 1

\* C17: for a verified VNPay return that names an order, the order is marked paid if and
\* only if vnp_ResponseCode is exactly "00"; with every other code (a code that is not in
\* the message table included) the order is marked failed and the call reports
\* success = false with the table's message or the default message.
C17_PaidIffCodeIsSuccess ==
  [][\A n \in NotifyProcs :
       LET code == Param(nRequest[n].params, "vnp_ResponseCode")
           id   == nOrderId[n]
       IN (npc[n] = "settle" /\ npc'[n] # "settle" /\ nRequest[n].channel = "vnpay")
          => IF code = <<"0", "0">>
               THEN /\ orders'[id].payment_status = "paid"
                    /\ orders'[id].status = "processing"
                    /\ nResponse'[n].success
                    /\ nResponse'[n].message = "Transaction successful"
               ELSE /\ orders'[id].payment_status = "failed"
                    /\ orders'[id].status = orders[id].status
                    /\ ~nResponse'[n].success
                    /\ nResponse'[n].message =
                         IF code = <<"2", "4">> THEN "Transaction cancelled by customer"
                                                ELSE "Unknown error"]_vars

C17_Witness ==
  /\ npc["n1"] = "done"
  /\ nResponse["n1"] = [status |-> "ok", success |-> FALSE, message |-> "Unknown error"]
  /\ Len(orders) = 1
  /\ orders[1].payment_status = "failed"
  /\ orders[1].status = "pending"

C19_TamperedReturnRejected ==
  [][\A n, m \in NotifyProcs :
       LET p == nRequest[n].params
           q == nRequest'[m].params
           receiving ==
             /\ handled' # handled
             /\ <<npc'[m], nRequest'[m], nResponse'[m]>> # <<npc[m], nRequest[m], nResponse[m]>>
       IN (/\ n # m
           /\ receiving
           /\ nRequest[n].channel = "vnpay"
           /\ npc[n] \in {"settle", "not_found"}
           /\ nRequest'[m].channel = "vnpay"
           /\ DOMAIN q = DOMAIN p
           /\ Cardinality({k \in DOMAIN p : q[k] # p[k]}) = 1
           /\ \A k \in DOMAIN p : k = "vnp_SecureHashType" => q[k] = p[k])
          => /\ npc'[m] = "rejected"
             /\ ~validateReturn(q).isValid
             /\ orders' = orders]_vars

C19_Witness ==
  /\ npc["n1"] = "settle"
  /\ npc["n2"] = "rejected"
  /\ nRequest["n1"].params["vnp_ResponseCode"] = <<"2", "4">>
  /\ nRequest["n2"].params =
       [nRequest["n1"].params EXCEPT !["vnp_ResponseCode"] = <<"0", "0">>]
  /\ orders[nOrderId["n1"]].payment_status = "pending"

\* C20: the order-confirmation e-mail of createOrder is dispatched only in the step in
\* which the transaction commits, for the order just committed, never for an order that is
\* not committed; a failed e-mail of createOrder changes no order, no stock and no
\* checkout result, and markOrderPaid ends the same way, with the order paid, whether its
\* e-mail is sent or fails.
C20_MailAfterCommitAndFailureSwallowed ==
  [][/\ orderMails' \subseteq DOMAIN orders'
     /\ orderMails' # orderMails
          => /\ \E c \in CheckoutProcs : cpc[c] = "commit" /\ cpc'[c] = "done"
             /\ Len(orders') = Len(orders) + 1
             /\ orderMails' = orderMails \cup {Len(orders')}
     /\ mailQueue' \subseteq orderMails'
     /\ (mailQueue' # mailQueue /\ mailQueue' \subseteq mailQueue)
          => /\ orders' = orders
             /\ stock' = stock
             /\ cpc' = cpc
             /\ cErr' = cErr
     /\ \A n \in NotifyProcs :
          (npc[n] = "settle" /\ nKind[n] = "success" /\ npc'[n] # "settle")
            => /\ npc'[n] = "done"
               /\ orders' = [orders EXCEPT ![nOrderId[n]] = PaidUpdate(@)]
               /\ nResponse'[n].status \in {"received", "ok"}]_vars

C20_Witness ==
  /\ lastMail = "failed"
  /\ mailQueue = {1}
  /\ orderMails = {1}
  /\ npc["n1"] = "done"
  /\ nResponse["n1"] = Received
  /\ orders[1].payment_status = "paid"

C22_QuantityAtLeastOne ==
  \A k \in 1..MaxCarts : \A i \in 1..Len(cartItems[k]) : cartItems[k][i].quantity >= 1

\* C23: addItem and updateItem are stock-bounded: when either succeeds, the row's
\* resulting quantity is at most the stock the operation read; when the requested or
\* accumulated quantity exceeds that stock, or the product is missing or inactive, the
\* operation is rejected and the cart rows are unchanged.
C23_StockBounded ==
  [][\A g \in CartProcs :
       LET k == gCart[g]
           p == gProduct[g]
           existing == ItemQuantity(k, p)
           rejected == /\ gpc'[g] = "idle"
                       /\ gResult'[g] \in {"not_found", "bad_request"}
                       /\ cartItems' = cartItems
       IN /\ (gpc[g] = "save" /\ gpc'[g] = "find")
               => \E i \in RowsOf(cartItems'[k], p) :
                    cartItems'[k][i].quantity <= gRead[g].stock_quantity
          /\ (gpc[g] = "op" /\ gOp[g] = "addItem" /\ gpc'[g] # "op")
               => ((\/ p \notin catalog
                    \/ ~isActive[p]
                    \/ gQty[g] > stock[p]
                    \/ (existing # NoItem /\ existing + gQty[g] > stock[p])) => rejected)
          /\ (gpc[g] = "op" /\ gOp[g] = "updateItem" /\ gpc'[g] # "op")
               => /\ gpc'[g] = "find"
                       => \E i \in RowsOf(cartItems'[k], p) :
                            cartItems'[k][i].quantity <= gRead'[g].stock_quantity
                  /\ (p \notin catalog \/ ~isActive[p] \/ gQty[g] > stock[p]) => rejected]_vars

\* C24: when mergeCart of a non-empty guest cart completes, the user's cart holds, for
\* every product that was in the guest cart or in the user's cart, exactly one row whose
\* quantity is the smaller of the two carts' summed quantities (a missing side counts
\* as 0) and the product's current stock, and the guest cart and its rows are gone.
C24_MergeSumsAndCaps ==
  [][\A g \in CartProcs :
       (gpc[g] = "mergeDelete" /\ gpc'[g] = "find")
         => LET k == gCart[g]
                guest == gGuest[g].id
                Before(c, p) ==
                  IF RowsOf(gItems0[g][c], p) = {} THEN 0
                  ELSE gItems0[g][c][CHOOSE i \in RowsOf(gItems0[g][c], p) : TRUE].quantity
                InEither == {p \in Products :
                               RowsOf(gItems0[g][k], p) # {} \/ RowsOf(gItems0[g][guest], p) # {}}
            IN /\ \A p \in InEither :
                    /\ Cardinality(RowsOf(cartItems'[k], p)) = 1
                    /\ \A i \in RowsOf(cartItems'[k], p) :
                         cartItems'[k][i].quantity =
                           IF Before(k, p) + Before(guest, p) <= stock[p]
                             THEN Before(k, p) + Before(guest, p)
                             ELSE stock[p]
               /\ carts'[guest] = NoCart
               /\ cartItems'[guest] = << >>]_vars

\* C25: every cart has exactly one of user_id and session_id set, and no two carts
\* have the same owner key, also when getOrCreateCart is called with neither key or
\* twice at once for an owner without a cart.
C25_OneCartPerOwnerKey ==
  /\ \A i \in DOMAIN carts :
       carts[i] # NoCart => (carts[i].user_id = "null") # (carts[i].session_id = "null")
  /\ \A i, j \in DOMAIN carts :
       (i # j /\ carts[i] # NoCart /\ carts[j] # NoCart) => carts[i] # carts[j]

\* C26: no two committed orders ever have the same order_number; a createOrder call
\* whose number another call has already committed fails at its insert, and its
\* transaction leaves no order, stock or cart change behind.
C26_OrderNumbersUnique ==
  [][/\ \A i, j \in DOMAIN orders' :
          i # j => orders'[i].order_number # orders'[j].order_number
     /\ \A c \in CheckoutProcs :
          (/\ cpc[c] = "save"
           /\ cpc'[c] # "save"
           /\ \E i \in DOMAIN orders : orders[i].order_number = cOrderNumber[c])
            => /\ cpc'[c] = "failed"
               /\ cErr'[c] # "none"
               /\ txOrder'[c] = NoOrder
               /\ txDec'[c] = NoDec
               /\ orders' = orders
               /\ stock' = stock
               /\ cartItems' = cartItems]_vars

\* two checkouts computed the same number: one is committed, the other has failed
C26_Witness ==
  \E c \in CheckoutProcs :
    /\ cpc[c] = "failed"
    /\ cErr[c] = "DuplicateOrderNumber"
    /\ Len(orders) >= 1

\* C27: cancelOrder is all-or-nothing: whenever no cancelOrder is running for an order,
\* either the order is cancelled and each of its lines has been added back to stock, or
\* it is not cancelled and none of its lines has been added back, also after a cancel
\* that failed part-way.
C27_CancelAllOrNothing ==
  \A o \in DOMAIN orders :
    (\A k \in CancelProcs : ~(kpc[k] \in {"restore", "save"} /\ kOrderId[k] = o))
      => LET lines == {orders[o].items[i].product_id : i \in DOMAIN orders[o].items}
         IN \/ orders[o].status = "cancelled" /\ \A p \in lines : restored[o][p] >= 1
            \/ orders[o].status # "cancelled" /\ \A p \in lines : restored[o][p] = 0

\* C28: every line of an order that createOrder commits carries the product's catalog
\* price and name as they are at the checkout, also when the price changed after the
\* item was put in the cart, and no later step changes the lines of a committed order.
C28_OrderItemSnapshotsCatalog ==
  [][/\ Len(orders') > Len(orders)
          => \A i \in DOMAIN orders'[Len(orders')].items :
               LET item == orders'[Len(orders')].items[i]
               IN /\ item.price = prodPrice[item.product_id]
                  /\ item.product_name = prodName[item.product_id]
     /\ \A o \in DOMAIN orders : orders'[o].items = orders[o].items]_vars

\* C29: no step deletes a committed order or changes its order_number, user, totals,
\* items or shipping address: cancel, settlement, payment-attempt creation, refund and
\* admin override change nothing but status, payment_status and payment_method.
C29_OrderImmutableButStatus ==
  [][\A o \in DOMAIN orders :
       /\ o \in DOMAIN orders'
       /\ [orders'[o] EXCEPT !.status = "any", !.payment_status = "any", !.payment_method = "any"]
            = [orders[o] EXCEPT !.status = "any", !.payment_status = "any", !.payment_method = "any"]]_vars

\* an order that was paid through a gateway, moved on by the admin and refunded
C29_Witness ==
  \E o \in DOMAIN orders :
    /\ orders[o].payment_method = "vnpay"
    /\ orders[o].payment_status = "refunded"
    /\ orders[o].status = "shipped"

InitUrl ==
  /\ InitStore
  /\ carts = [i \in 1..2 |-> [user_id |-> IF i = 1 THEN "u1" ELSE "u2", session_id |-> "null"]]
  /\ tz \in 0..MaxTzOffset
  /\ webhookSecret = "whsec"
  /\ tmnCode \in {<< >>, <<"TMNCODE">>}

\* a customer's orders of one line over several days and the first payment URL requested
\* for each, from the default client address or an IPv6 one
NextUrl ==
  \/ NoRequest /\ Tick
  \/ /\ NoRequest
     /\ cartItems[FindCart("u1", "null")] = << >>
     /\ \E p \in Products : addItem("u1", p, 1)
  \/ /\ NoRequest
     /\ Len(orders) < MaxStatusOrders
     /\ createOrderStart("c1", "u1", "none")
  \/ createOrderRun("c1")
  \/ /\ NoRequest
     /\ \E id \in DOMAIN orders : attempts[id] = << >> /\ paymentStart("a1", "vnpay", id, "u1")
  \/ \E ipAddr \in {DefaultIp, <<":", ":", "1">>} : issueAttempt("a1", TRUE, ipAddr)
  \/ recordMethod("a1")

SpecUrl == InitUrl /\ [][NextUrl]_vars

\* C31: the query string createPaymentUrl puts in the URL, parsed back into parameters,
\* is accepted by validateReturn: the signature it carries is the one validateReturn
\* recomputes under the same secret
C31_PaymentUrlRoundTrip ==
  \A a \in PayProcs :
    paymentUrl[a] # << >> => validateReturn(ParseQuery(paymentUrl[a])).isValid

\* a URL was issued without a terminal code (the empty vnp_TmnCode is dropped) for an
\* IPv6 client, and validateReturn accepts it
C31_Witness ==
  \E a \in PayProcs :
    /\ paymentUrl[a] # << >>
    /\ tmnCode = << >>
    /\ "vnp_TmnCode" \notin DOMAIN ParseQuery(paymentUrl[a])
    /\ ParseQuery(paymentUrl[a])["vnp_IpAddr"] = <<":", ":", "1">>
    /\ validateReturn(ParseQuery(paymentUrl[a])).isValid


\* C32: whenever no checkout and no cancel is in progress, the stock of every product
\* plus the quantities of its order items in the orders that are not cancelled is the
\* initial stock
C32_StockConservation ==
  (CheckoutIdle /\ \A k \in CancelProcs : kpc[k] \notin {"restore", "save"}) =>
    \A p \in Products :
      stock[p]
        + SumSeq([i \in 1..Len(orders) |->
                    IF orders[i].status = "cancelled"
                      THEN 0
                      ELSE SumSeq([j \in 1..Len(orders[i].items) |->
                                     IF orders[i].items[j].product_id = p
                                       THEN orders[i].items[j].quantity
                                       ELSE 0])])
        = InitialStock


\* C33: every cart line a createOrder call deleted before it committed is an item of the
\* order it created, with the same quantity
C33_NoCartLineLost ==
  [][\A c \in CheckoutProcs :
       (cpc[c] = "commit" /\ cpc'[c] = "done") =>
         \A i \in 1..Len(cCleared[c]) :
           \E j \in 1..Len(orders'[Len(orders')].items) :
             /\ orders'[Len(orders')].items[j].product_id = cCleared[c][i].product_id
             /\ orders'[Len(orders')].items[j].quantity = cCleared[c][i].quantity]_vars


\* C34: no step of a cancelOrder call changes an order that markOrderPaid has set to
\* paid: the order stays paid and is not cancelled (no refund and no admin override
\* takes place)
C34_CancelLeavesPaidOrder ==
  [][\A o \in DOMAIN orders :
       (orders[o].payment_status = "paid" /\ kpc' # kpc) =>
         /\ orders'[o].payment_status = "paid"
         /\ orders'[o].status # "cancelled"]_vars


\* ------------------------------------------------------------ ownership
\* two customers with a cart each; either one checks out; a first cart-item request names
\* an existing cart row of either of them, and a first cancel and a first payment request
\* name an existing order of either of them
NextOwner ==
  \/ /\ NoRequest
     /\ gpc["g1"] = "idle"
     /\ \E u \in Users : cartItems[FindCart(u, "null")] = << >> /\ addItem(u, "p1", 1)
  \/ /\ NoRequest
     /\ Len(orders) < MaxStatusOrders
     /\ \E u \in Users : createOrderStart("c1", u, "none")
  \/ createOrderRun("c1")
  \/ /\ NoRequest
     /\ kpc["k1"] = "idle"
     /\ \E id \in DOMAIN orders, u \in Users : cancelOrderStart("k1", id, u)
  \/ restoreStock("k1")
  \/ cancelOrderSave("k1")
  \/ /\ NoRequest
     /\ ppc["a1"] = "idle"
     /\ \E ch \in Channels, id \in DOMAIN orders, u \in Users : paymentStart("a1", ch, id, u)
  \/ issueAttempt("a1", TRUE, DefaultIp)
  \/ recordMethod("a1")
  \/ /\ NoRequest
     /\ gResult["g1"] = "none"
     /\ \E op \in {"updateItem", "removeItem"}, u \in Users, itemCart \in DOMAIN carts,
           q \in 1..MaxCartQty :
          /\ ItemQuantity(itemCart, "p1") # NoItem
          /\ cartRequest("g1", op, u, "null", itemCart, "p1", q)
  \/ getOrCreateCartFind("g1")
  \/ updateItem("g1")
  \/ removeItem("g1")

SpecOwner == Init /\ [][NextOwner]_vars

\* the cart row the item id of a cart request names belongs to another owner
ForeignItem(g) ==
  /\ gItemCart[g] \in DOMAIN carts
  /\ carts[gItemCart[g]] # NoCart
  /\ carts[gItemCart[g]].user_id # gUser[g]
  /\ ItemQuantity(gItemCart[g], gProduct[g]) # NoItem

\* C35: for an order of another user, the lookup and the payment-status query answer
\* not-found, and cancelOrder and the creation of a payment intent or URL end not-found
\* and leave orders, stock and carts as they were; updateItem and removeItem with the id
\* of a row of another owner's cart end not-found and leave every cart as it was
C35_OwnershipIsolation ==
  [][/\ \A id \in DOMAIN orders, u \in Users :
          orders[id].user_id # u =>
            /\ ~FindOne(id, u)
            /\ getPaymentStatus(id, u) = NotFound
            /\ \A k \in CancelProcs :
                 cancelOrderStart(k, id, u) =>
                   kpc'[k] = "not_found" /\ UNCHANGED <<storeVars, restored>>
            /\ \A a \in PayProcs, ch \in Channels :
                 paymentStart(a, ch, id, u) =>
                   ppc'[a] = "not_found" /\ UNCHANGED <<storeVars, attempts>>
     /\ \A g \in CartProcs :
          (ForeignItem(g) /\ (updateItem(g) \/ removeItem(g))) =>
            gResult'[g] = "not_found" /\ UNCHANGED storeVars]_vars

\* each kind of request has been refused for an order or a cart row of the other customer
\* (every request of this specification names an existing order or row, so not-found
\* means another owner's), while the order and the row exist
C35_Witness ==
  /\ kpc["k1"] = "not_found"
  /\ ppc["a1"] = "not_found"
  /\ gResult["g1"] = "not_found"
  /\ \E id \in DOMAIN orders, u \in Users : orders[id].user_id # u /\ orders[id].status = "pending"
  /\ \E k \in DOMAIN carts : ItemQuantity(k, "p1") # NoItem


\* ------------------------------------------------------------ transactions
\* a customer's checkouts, one at a time, with database statements that may fail: the
\* writes of the transaction, its commit, and the lookup of the committed order
NextTx ==
  \/ NoRequest /\ \E p \in Products : addItem("u1", p, 1)
  \/ NoRequest /\ createOrderStart("c1", "u1", "none")
  \/ createOrderRun("c1")
  \/ createOrderFails("c1")
  \/ returnOrderFails("c1")

SpecTx == Init /\ [][NextTx]_vars

\* C36: a createOrder call that started a transaction and has ended did one commit or one
\* rollback and then released its query runner; a call that reported an error rolled its
\* transaction back and committed no order
C36_TransactionEndsOnce ==
  \A c \in CheckoutProcs :
    /\ (cpc[c] \in {"done", "failed"} /\ txLog[c] # << >>) =>
         txLog[c] \in {<<"start", "commit", "release">>, <<"start", "rollback", "release">>}
    /\ (cpc[c] = "failed" /\ txLog[c] # << >>) =>
         txLog[c] = <<"start", "rollback", "release">>


\* C37: processRefund answers with success exactly for an existing order that is paid and
\* was not paid through Stripe; a successful call sets payment_status to refunded and
\* leaves every other field of the order, the other orders, the stock and the carts as they
\* were, and a further refund of that order is refused; every other call is refused and
\* changes nothing
C37_RefundOnlyPaidNonStripe ==
  [][\A id \in OrderRefs :
       LET refundable == /\ id \in DOMAIN orders
                         /\ orders[id].payment_status = "paid"
                         /\ orders[id].payment_method # "stripe"
       IN /\ RefundResponse(id).success <=> refundable
          /\ ~refundable =>
               /\ RefundResponse(id) \in {NotFound, BadRequest}
               /\ ~ENABLED processRefund(id)
          /\ processRefund(id) =>
               /\ refundable
               /\ orders' = [orders EXCEPT ![id].payment_status = "refunded"]
               /\ orders'[id].status = orders[id].status
               /\ UNCHANGED <<productVars, stock, carts, cartItems, attempts>>
               /\ ~(RefundResponse(id).success)']_vars

\* an order was refunded, keeps its status processing, and a second refund is refused
C37_Witness ==
  \E id \in DOMAIN orders :
    /\ orders[id].payment_status = "refunded"
    /\ orders[id].status = "processing"
    /\ RefundResponse(id) = BadRequest

====
